---- MODULE Spec2Model ----
(***************************************************************************)
(* Verification model of aura-core's storage core:                         *)
(*   - src/aura/loader.py : AuraWriter / AuraReader, the indexed .aura     *)
(*     archive, modelled at byte level (msgpack subset, little-endian      *)
(*     headers, 12-byte footer);                                           *)
(*   - src/aura/memory.py : TwoSpeedWAL / AuraMemoryOS, the three-tier     *)
(*     memory store with its write-ahead logs and compiled shards;         *)
(*   - src/aura/mcp_server.py : the loop that reads framed JSON-RPC        *)
(*     messages from stdin and answers them on stdout.                     *)
(* The specifications of the module:                                       *)
(*   SpecArchive   one writer and the reader functions over its file;      *)
(*   SpecReopen    one writer after the other on the same path;            *)
(*   SpecReader    one writer, then one reader making every call;          *)
(*   SpecReaders   one writer, then two readers with interleaved steps;    *)
(*   SpecMemory    one store, small inputs;                                *)
(*   SpecThreshold one store driven up to the flush threshold;             *)
(*   SpecWal       the WAL objects called directly, without flush;         *)
(*   SpecCrash     one store whose process may stop and start again;       *)
(*   SpecQuery     one store, started on a found log, that is queried;     *)
(*   SpecPrune     one store whose shards are listed and pruned;           *)
(*   SpecTiers     one store whose three namespaces are used side by side; *)
(*   SpecCrashWrite  SpecCrash, and the process may stop inside the write  *)
(*                 of a shard;                                             *)
(*   SpecFlushFail one store whose flush may raise;                        *)
(*   SpecServer    the MCP server reading one input to its end.            *)
(***************************************************************************)
EXTENDS Integers, Sequences, FiniteSets, TLC

VARIABLES
    \* ---- archive (loader.py) ----
    file,          \* bytes of the file at output_path
    pos,           \* position of the writer's file handle (tell())
    index,         \* AuraWriter.index, an insertion-ordered dict: << <<id, <<offset, meta_len, tensor_len>> >>, ... >>
    closed,        \* AuraWriter._closed
    file_handle,   \* AuraWriter._file_handle: "open" or "None"
    alive,         \* the writer object has not been destroyed yet
    scope,         \* "plain": used without with; "with": inside a with block; "left": the with block was left
    nClose,        \* number of explicit close() calls made so far
    appended,      \* history: the arguments of every successful append_datapoint, in order
    last,          \* the last writer call and its outcome
    \* ---- memory store (memory.py) ----
    wal_file,      \* per namespace: active.jsonl, [exists, lines]
    entry_count,   \* per namespace: TwoSpeedWAL._entry_count
    shards,        \* per namespace: the set of shard files [id, lines, mtime]
    now,           \* the reading of the system clock
    written,       \* history: the entries returned by write, in order
    mlast,         \* the last store call and its outcome
    \* ---- archive readers (loader.py) ----
    readers,       \* per reader: the AuraReader object, [obj, file_handle, index, datapoint_ids, pc, id, meta_bytes]
    hpos,          \* per file handle opened by a reader: its seek position
    rlast,         \* per reader: its last call, the outcome and the value returned
    \* ---- process of the memory store ----
    up,            \* the process that owns the store is running
    fpc,           \* per namespace: where flush_to_shard stands, [at, shard_id, entries]
    torn,          \* history, per namespace: the shard written by a flush that the process did not survive
    \* ---- MCP server (mcp_server.py) ----
    stdin,         \* the frames not yet read from sys.stdin
    stdout,        \* the ids of the responses written to sys.stdout, in order
    serving        \* where main() stands: "not started", "running", "ended", "interrupted"

avars == <<file, pos, index, closed, file_handle, alive, scope, nClose, appended, last>>
mvars == <<wal_file, entry_count, shards, now, written, mlast>>
rvars == <<readers, hpos, rlast>>
cvars == <<up, fpc, torn>>
svars == <<stdin, stdout, serving>>
vars  == <<file, pos, index, closed, file_handle, alive, scope, nClose, appended, last,
           wal_file, entry_count, shards, now, written, mlast,
           readers, hpos, rlast, up, fpc, torn, stdin, stdout, serving>>

----------------------------------------------------------------------------
(* Bounds of the model *)

\* successful appends per writer
MaxRecords == 3

\* explicit close() calls per writer
MaxCloses == 2

\* reads of the system clock: 0..MaxTime
MaxTime == 1

\* clock readings that fall into one second of the shard timestamp
TicksPerSecond == 1

\* write calls on a store in SpecMemory
MaxWrites == 2

\* write calls on a store in SpecThreshold
MaxThresholdWrites == 101

\* in SpecThreshold the first MaxSide writes go to any namespace, each later
\* write goes to the namespace of the write before it
MaxSide == 2

\* in SpecThreshold the clock moves only during the last TickWindow writes
\* before the threshold and after them
TickWindow == 2

\* frames on the input of the MCP server in SpecServer
MaxMessages == 3

\* the requests on that input have the ids 1..MaxRequestId
MaxRequestId == 2

----------------------------------------------------------------------------
(* Generic helpers *)

RECURSIVE Flatten(_)
Flatten(ss) == IF ss = <<>> THEN <<>> ELSE Head(ss) \o Flatten(Tail(ss))

Range(s) == {s[i] : i \in DOMAIN s}

----------------------------------------------------------------------------
(* Strings as bytes (UTF-8 of the few strings the model uses) *)

Strs == {"a", "b", "c", "k", "x", "y", "_id"}

StrBytes(s) ==
    CASE s = "a" -> <<97>>
      [] s = "b" -> <<98>>
      [] s = "c" -> <<99>>
      [] s = "k" -> <<107>>
      [] s = "x" -> <<120>>
      [] s = "y" -> <<121>>
      [] s = "_id" -> <<95, 105, 100>>

BytesStr(bs) == CHOOSE s \in Strs : StrBytes(s) = bs

----------------------------------------------------------------------------
(* struct.pack / struct.unpack, little-endian *)

RECURSIVE PackLE(_, _)
\* the k low bytes of n, least significant first
PackLE(n, k) == IF k = 0 THEN <<>> ELSE <<n % 256>> \o PackLE(n \div 256, k - 1)

\* struct.pack('<I', n)
PackU32(n) == PackLE(n, 4)

\* struct.pack('<Q', n)
PackU64(n) == PackLE(n, 8)

RECURSIVE UnpackLE(_)
\* struct.unpack('<Q', bs)[0]
UnpackLE(bs) == IF bs = <<>> THEN 0 ELSE Head(bs) + 256 * UnpackLE(Tail(bs))

AURA_MAGIC == <<65, 85, 82, 65>>

FooterSize == 12

----------------------------------------------------------------------------
(* msgpack.packb / msgpack.unpackb on the subset of values the model uses:  *)
(* non-negative integers, short strings, a map of string keys, and the      *)
(* 3-element array of the index.  Values are tagged records.                *)

IntV(n) == [t |-> "int", s |-> "", n |-> n]
StrV(s) == [t |-> "str", s |-> s, n |-> 0]
\* a value msgpack cannot serialize
ObjV == [t |-> "obj", s |-> "", n |-> 0]

\* positive fixint / uint8 / uint16 (big-endian)
PackInt(n) ==
    IF n < 128 THEN <<n>>
    ELSE IF n < 256 THEN <<204, n>>
    ELSE <<205, (n \div 256) % 256, n % 256>>

\* fixstr
PackStr(s) == <<160 + Len(StrBytes(s))>> \o StrBytes(s)

PackValue(v) == IF v.t = "str" THEN PackStr(v.s) ELSE PackInt(v.n)

Serializable(d) == \A i \in DOMAIN d : d[i][2].t # "obj"

\* msgpack.packb(meta): fixmap of string keys, in dict order
PackMap(d) ==
    <<128 + Len(d)>> \o Flatten([i \in DOMAIN d |-> PackStr(d[i][1]) \o PackValue(d[i][2])])

\* msgpack.packb(self.index): fixmap id -> fixarray(offset, meta_len, tensor_len)
PackIndex(idx) ==
    <<128 + Len(idx)>> \o
    Flatten([i \in DOMAIN idx |->
        PackStr(idx[i][1]) \o <<147>> \o PackInt(idx[i][2][1])
                           \o PackInt(idx[i][2][2]) \o PackInt(idx[i][2][3])])

\* each Unpack* returns [v |-> value, p |-> position after it]; p = 0 marks a parse failure
UnpackInt(b, p) ==
    IF p < 1 \/ p > Len(b) THEN [v |-> 0, p |-> 0]
    ELSE IF b[p] < 128 THEN [v |-> b[p], p |-> p + 1]
    ELSE IF b[p] = 204 /\ p + 1 <= Len(b) THEN [v |-> b[p + 1], p |-> p + 2]
    ELSE IF b[p] = 205 /\ p + 2 <= Len(b) THEN [v |-> 256 * b[p + 1] + b[p + 2], p |-> p + 3]
    ELSE [v |-> 0, p |-> 0]

IsStrAt(b, p) ==
    /\ p >= 1 /\ p <= Len(b)
    /\ b[p] >= 160 /\ b[p] < 192
    /\ p + (b[p] - 160) <= Len(b)
    /\ \E s \in Strs : StrBytes(s) = SubSeq(b, p + 1, p + (b[p] - 160))

UnpackStr(b, p) ==
    IF IsStrAt(b, p)
    THEN [v |-> BytesStr(SubSeq(b, p + 1, p + (b[p] - 160))), p |-> p + 1 + (b[p] - 160)]
    ELSE [v |-> "", p |-> 0]

UnpackValue(b, p) ==
    IF IsStrAt(b, p)
    THEN [v |-> StrV(UnpackStr(b, p).v), p |-> UnpackStr(b, p).p]
    ELSE [v |-> IntV(UnpackInt(b, p).v), p |-> UnpackInt(b, p).p]

RECURSIVE UnpackMapItems(_, _, _)
UnpackMapItems(b, p, n) ==
    IF n = 0 \/ p = 0 THEN [v |-> <<>>, p |-> p]
    ELSE LET k == UnpackStr(b, p)
             v == IF k.p = 0 THEN [v |-> IntV(0), p |-> 0] ELSE UnpackValue(b, k.p)
             rest == UnpackMapItems(b, v.p, n - 1)
         IN  [v |-> << <<k.v, v.v>> >> \o rest.v, p |-> rest.p]

BadBytes == [ok |-> FALSE, v |-> <<>>]

\* msgpack.unpackb(meta_bytes, raw=False) for a map
UnpackMap(b) ==
    IF Len(b) = 0 \/ b[1] < 128 \/ b[1] >= 144 THEN BadBytes
    ELSE LET r == UnpackMapItems(b, 2, b[1] - 128)
         IN  IF r.p = Len(b) + 1 THEN [ok |-> TRUE, v |-> r.v] ELSE BadBytes

RECURSIVE UnpackIndexItems(_, _, _)
UnpackIndexItems(b, p, n) ==
    IF n = 0 \/ p = 0 THEN [v |-> <<>>, p |-> p]
    ELSE LET k == UnpackStr(b, p)
             arr == k.p # 0 /\ k.p <= Len(b) /\ b[k.p] = 147
             o == IF arr THEN UnpackInt(b, k.p + 1) ELSE [v |-> 0, p |-> 0]
             m == UnpackInt(b, o.p)
             t == UnpackInt(b, m.p)
             rest == UnpackIndexItems(b, t.p, n - 1)
         IN  [v |-> << <<k.v, <<o.v, m.v, t.v>> >> >> \o rest.v, p |-> rest.p]

\* msgpack.unpackb(index_bytes, raw=False)
UnpackIndex(b) ==
    IF Len(b) = 0 \/ b[1] < 128 \/ b[1] >= 144 THEN BadBytes
    ELSE LET r == UnpackIndexItems(b, 2, b[1] - 128)
         IN  IF r.p = Len(b) + 1 THEN [ok |-> TRUE, v |-> r.v] ELSE BadBytes

----------------------------------------------------------------------------
(* safetensors save / load.  A tensor value is [kind, data]: kind is        *)
(* "ndarray", "list" (list or tuple) or "other"; data is its byte content.  *)
(* The blob written is a count followed by name and data of every tensor,   *)
(* each with its length in front.                                           *)

NdArray(data) == [kind |-> "ndarray", data |-> data]
ListVal(data) == [kind |-> "list", data |-> data]
OtherVal == [kind |-> "other", data |-> <<>>]

\* the loop that builds tensor_dict: arrays kept, lists and tuples converted
\* with np.array, everything else skipped
TensorDict(tensors) ==
    LET keep == SelectSeq(tensors, LAMBDA kv : kv[2].kind \in {"ndarray", "list"})
    IN  [i \in DOMAIN keep |-> <<keep[i][1], NdArray(keep[i][2].data)>>]

\* st_save(tensor_dict, tensor_buffer); tensor_buffer.getvalue()
st_save(td) ==
    <<Len(td)>> \o
    Flatten([i \in DOMAIN td |->
        <<Len(StrBytes(td[i][1]))>> \o StrBytes(td[i][1])
            \o <<Len(td[i][2].data)>> \o td[i][2].data])

RECURSIVE LoadTensors(_, _, _)
LoadTensors(b, p, n) ==
    IF n = 0 \/ p = 0 THEN [v |-> <<>>, p |-> p]
    ELSE IF p > Len(b) \/ p + b[p] + 1 > Len(b) THEN [v |-> <<>>, p |-> 0]
    ELSE LET nl == b[p]
             nb == SubSeq(b, p + 1, p + nl)
             dl == b[p + nl + 1]
             de == p + nl + 1 + dl
         IN  IF de > Len(b) \/ ~(\E s \in Strs : StrBytes(s) = nb)
             THEN [v |-> <<>>, p |-> 0]
             ELSE LET rest == LoadTensors(b, de + 1, n - 1)
                  IN  [v |-> << <<BytesStr(nb), NdArray(SubSeq(b, p + nl + 2, de))>> >> \o rest.v,
                       p |-> rest.p]

\* st_load(tensor_bytes)
st_load(b) ==
    IF Len(b) = 0 THEN BadBytes
    ELSE LET r == LoadTensors(b, 2, b[1])
         IN  IF r.p = Len(b) + 1 THEN [ok |-> TRUE, v |-> r.v] ELSE BadBytes

----------------------------------------------------------------------------
(* Python dicts as sequences of <<key, value>> pairs in insertion order *)

Keys(d) == {d[i][1] : i \in DOMAIN d}

\* key in d
HasKey(d, k) == \E i \in DOMAIN d : d[i][1] = k

\* d[k] = v: an existing key keeps its place, a new key goes last
DictSet(d, k, v) ==
    IF HasKey(d, k)
    THEN [i \in DOMAIN d |-> IF d[i][1] = k THEN <<k, v>> ELSE d[i]]
    ELSE Append(d, <<k, v>>)

\* d[k]
DictGet(d, k) == d[CHOOSE i \in DOMAIN d : d[i][1] = k][2]

\* d1 == d2 in Python: the same keys with the same values, in any order
DictEq(d1, d2) == Range(d1) = Range(d2)

\* the keys of d are pairwise distinct
IsDict(d) == \A i, j \in DOMAIN d : d[i][1] = d[j][1] => i = j

----------------------------------------------------------------------------
(* AuraWriter *)

NoMeta == [given |-> FALSE, d |-> <<>>]
Meta(d) == [given |-> TRUE, d |-> d]

\* PrepareMeta without the line meta['_id'] = datapoint_id
PrepareMeta_NoId(metadata, datapoint_id) ==
    IF metadata.given /\ metadata.d # <<>> THEN metadata.d ELSE <<>>

\* meta = metadata or {}; meta['_id'] = datapoint_id
PrepareMeta(metadata, datapoint_id) ==
    DictSet(IF metadata.given /\ metadata.d # <<>> THEN metadata.d ELSE <<>>,
            "_id", StrV(datapoint_id))

\* HasId when the membership test never finds the id
HasId_Never(idx, datapoint_id) == FALSE

\* if datapoint_id in self.index
HasId(idx, datapoint_id) == HasKey(idx, datapoint_id)

\* AppendOutcome without the duplicate-id check
AppendOutcome_NoDupCheck(closed_, idx, datapoint_id, metadata) ==
    IF closed_ THEN "ClosedWriter"
    ELSE IF ~Serializable(PrepareMeta(metadata, datapoint_id)) THEN "TypeError"
    ELSE "ok"

\* AppendOutcome with the duplicate-id check ahead of the closed check
AppendOutcome_DupFirst(closed_, idx, datapoint_id, metadata) ==
    IF HasId(idx, datapoint_id) THEN "DuplicateId"
    ELSE IF closed_ THEN "ClosedWriter"
    ELSE IF ~Serializable(PrepareMeta(metadata, datapoint_id)) THEN "TypeError"
    ELSE "ok"

\* the order of the checks and of the serialization steps in append_datapoint:
\* closed writer, duplicate id, msgpack.packb of the metadata
AppendOutcome(closed_, idx, datapoint_id, metadata) ==
    IF closed_ THEN "ClosedWriter"
    ELSE IF HasId(idx, datapoint_id) THEN "DuplicateId"
    ELSE IF ~Serializable(PrepareMeta(metadata, datapoint_id)) THEN "TypeError"
    ELSE "ok"

\* RecordBytes when tensor_len is written as 8 bytes
RecordBytes_WideHeader(meta_bytes, tensor_bytes) ==
    PackU32(Len(meta_bytes)) \o PackU64(Len(tensor_bytes)) \o meta_bytes \o tensor_bytes

\* [meta_len][tensor_len][meta_bytes][tensor_bytes]
RecordBytes(meta_bytes, tensor_bytes) ==
    PackU32(Len(meta_bytes)) \o PackU32(Len(tensor_bytes)) \o meta_bytes \o tensor_bytes

\* file.write(bs) on a handle at position p of a file f opened with 'wb'
FileWrite(f, p, bs) == SubSeq(f, 1, p) \o bs

append_datapoint(datapoint_id, tensors, metadata) ==
    /\ alive
    /\ LET outcome == AppendOutcome(closed, index, datapoint_id, metadata)
           offset == pos
           meta_bytes == PackMap(PrepareMeta(metadata, datapoint_id))
           tensor_bytes == st_save(TensorDict(tensors))
           rec == RecordBytes(meta_bytes, tensor_bytes)
       IN  /\ last' = [op |-> "append", id |-> datapoint_id, outcome |-> outcome]
           /\ IF outcome = "ok"
              THEN /\ Len(index) < MaxRecords
                   /\ file' = FileWrite(file, pos, rec)
                   /\ pos' = pos + Len(rec)
                   /\ index' = DictSet(index, datapoint_id,
                                       <<offset, Len(meta_bytes), Len(tensor_bytes)>>)
                   /\ appended' = Append(appended,
                          [id |-> datapoint_id, tensors |-> tensors, metadata |-> metadata])
              ELSE UNCHANGED <<file, pos, index, appended>>
    /\ UNCHANGED <<closed, file_handle, alive, scope, nClose>>
    /\ UNCHANGED <<mvars, svars>>
    /\ UNCHANGED <<rvars, cvars>>

\* CloseWrites when close() does not look at _closed
CloseWrites_Always(closed_, handle) == TRUE

\* the guard of the body of close(): not self._closed, and self._file_handle
CloseWrites(closed_, handle) == ~closed_ /\ handle # "None"

\* the bytes close() writes at the current position: index, index_offset, magic
Trailer(idx, index_offset) == PackIndex(idx) \o PackU64(index_offset) \o AURA_MAGIC

\* the effect of AuraWriter.close() on the writer and its file
DoClose ==
    IF CloseWrites(closed, file_handle)
    THEN /\ file' = FileWrite(file, pos, Trailer(index, pos))
         /\ pos' = pos + Len(Trailer(index, pos))
         /\ file_handle' = "None"
         /\ closed' = TRUE
    ELSE UNCHANGED <<file, pos, file_handle, closed>>

writer_close ==
    /\ alive
    /\ nClose < MaxCloses
    /\ DoClose
    /\ nClose' = nClose + 1
    /\ last' = [op |-> "close", id |-> "", outcome |-> "ok"]
    /\ UNCHANGED <<index, alive, scope, appended>>
    /\ UNCHANGED <<mvars, svars>>
    /\ UNCHANGED <<rvars, cvars>>

\* __exit__(exc_type, exc_val, exc_tb): close, and let any exception through
writer_exit(exc) ==
    /\ alive
    /\ scope = "with"
    /\ DoClose
    /\ scope' = "left"
    /\ last' = [op |-> "exit", id |-> "", outcome |-> IF exc THEN "raised" ELSE "ok"]
    /\ UNCHANGED <<index, alive, nClose, appended>>
    /\ UNCHANGED <<mvars, svars>>
    /\ UNCHANGED <<rvars, cvars>>

\* DelCloses when __del__ never closes
DelCloses_Never(closed_, handle) == FALSE

\* the condition under which __del__ closes
DelCloses(closed_, handle) == ~closed_ /\ handle # "None"

\* __del__: runs once, when nothing refers to the writer any more
writer_del ==
    /\ alive
    /\ scope # "with"
    /\ alive' = FALSE
    /\ IF DelCloses(closed, file_handle)
       THEN DoClose
       ELSE UNCHANGED <<file, pos, file_handle, closed>>
    /\ last' = [op |-> "del", id |-> "", outcome |-> "ok"]
    /\ UNCHANGED <<index, scope, nClose, appended>>
    /\ UNCHANGED <<mvars, svars>>
    /\ UNCHANGED <<rvars, cvars>>

\* open(self.output_path, 'wb') on a path where the file f exists: mode 'wb'
\* truncates it
OpenWb(f) == <<>>

\* AuraWriter(output_path) on the path of the writer before, once that one is
\* closed: a new writer object over the same path
writer_open ==
    /\ closed
    /\ file' = OpenWb(file)
    /\ pos' = 0
    /\ index' = <<>>
    /\ closed' = FALSE
    /\ file_handle' = "open"
    /\ alive' = TRUE
    /\ scope' = "plain"
    /\ nClose' = 0
    /\ appended' = <<>>
    /\ last' = [op |-> "open", id |-> "", outcome |-> "ok"]
    /\ UNCHANGED <<mvars, svars>>
    /\ UNCHANGED <<rvars, cvars>>

----------------------------------------------------------------------------
(* AuraReader, as functions of the bytes of the file it is opened on *)

\* file.read(n) on a handle at position p of the file f: the bytes returned
FileRead(f, p, n) == SubSeq(f, p + 1, IF p + n > Len(f) THEN Len(f) ELSE p + n)

\* ValidMagic when the comparison with AURA_MAGIC is left out
ValidMagic_Always(f) == TRUE

\* _validate_magic: the last 4 bytes are the magic
ValidMagic(f) == Len(f) >= 4 /\ SubSeq(f, Len(f) - 3, Len(f)) = AURA_MAGIC

\* _read_index: self.index, or a failure
ReadIndex(f) ==
    IF Len(f) < FooterSize THEN BadBytes
    ELSE LET index_offset == UnpackLE(SubSeq(f, Len(f) - 11, Len(f) - 4))
             index_size == Len(f) - FooterSize - index_offset
             \* read(-1) reads up to the end of the file, read(n) with n < -1
             \* raises ValueError
             index_bytes == IF index_size = -1
                            THEN SubSeq(f, index_offset + 1, Len(f))
                            ELSE FileRead(f, index_offset, index_size)
         IN  IF index_size < -1 THEN BadBytes ELSE UnpackIndex(index_bytes)

\* AuraReader(path): the reader's index, or a failure
ReaderOpen(f) == IF ValidMagic(f) THEN ReadIndex(f) ELSE BadBytes

\* how AuraReader(path) ends on an existing file f: "ok", or the exception
\* that leaves __init__ ("OSError" from seek(-4, 2) or seek(-12, 2) before the
\* start of the file, "InvalidMagic" for the ValueError of _validate_magic,
\* "BadIndex" for any failure of _read_index past the seek)
OpenOutcome(f) ==
    IF Len(f) < 4 THEN "OSError"
    ELSE IF ~ValidMagic(f) THEN "InvalidMagic"
    ELSE IF Len(f) < FooterSize THEN "OSError"
    ELSE IF ReadIndex(f).ok THEN "ok"
    ELSE "BadIndex"

\* self.datapoint_ids = list(self.index.keys())
datapoint_ids(idx) == [i \in DOMAIN idx |-> idx[i][1]]

NotFound == [ok |-> FALSE, meta |-> <<>>, tensors |-> <<>>]

\* read_datapoint(datapoint_id) on a reader with index idx over file f
read_datapoint(f, idx, datapoint_id) ==
    IF ~HasKey(idx, datapoint_id) THEN NotFound
    ELSE LET e == DictGet(idx, datapoint_id)
             offset == e[1]
             meta_len == e[2]
             tensor_len == e[3]
             meta == UnpackMap(SubSeq(f, offset + 9, offset + 8 + meta_len))
             tensors == st_load(SubSeq(f, offset + 9 + meta_len,
                                          offset + 8 + meta_len + tensor_len))
         IN  IF meta.ok /\ tensors.ok
             THEN [ok |-> TRUE, meta |-> meta.v, tensors |-> tensors.v]
             ELSE NotFound

\* the value a reader call returns or the exception it raises
Raised(outcome) == [outcome |-> outcome, rec |-> NotFound]
Returned(rec) == [outcome |-> "ok", rec |-> rec]

\* read_datapoint on a reader whose handle is open, with the exception told
\* apart: KeyError for an id outside the index ("NotFound"), a failure of
\* unpackb or st_load ("BadRecord")
ReadResult(f, idx, datapoint_id) ==
    IF ~HasKey(idx, datapoint_id) THEN Raised("NotFound")
    ELSE IF read_datapoint(f, idx, datapoint_id).ok
         THEN Returned(read_datapoint(f, idx, datapoint_id))
         ELSE Raised("BadRecord")

\* __len__
reader_len(ids) == Len(ids)

\* GetItemOutOfRange without the test key < 0
GetItemOutOfRange_NoNegative(ids, key) == key >= reader_len(ids)

\* the range test of __getitem__ for an int key
GetItemOutOfRange(ids, key) == key < 0 \/ key >= reader_len(ids)

\* self.datapoint_ids[key] of a Python list: a negative key counts from the end
ListAt(ids, key) == IF key >= 0 THEN ids[key + 1] ELSE ids[Len(ids) + key + 1]

\* what __getitem__(key) gives for an int key on a reader whose handle is open
GetItem(f, idx, ids, key) ==
    IF GetItemOutOfRange(ids, key) THEN Raised("OutOfRange")
    ELSE IF key >= Len(ids) \/ key < 0 - Len(ids) THEN Raised("OutOfRange")
    ELSE ReadResult(f, idx, ListAt(ids, key))

\* what list(reader) gives on a reader whose handle is open: __iter__ reads
\* every id of datapoint_ids in order
IterAll(f, idx, ids) == [i \in DOMAIN ids |-> ReadResult(f, idx, ids[i])]

----------------------------------------------------------------------------
(* AuraReader objects: each has its index, its id list and a file handle;   *)
(* read_datapoint is a seek followed by three reads, and the steps of       *)
(* different readers interleave.                                            *)

Readers == {"r1", "r2"}

\* no AuraReader object: none constructed yet, or __init__ raised
NoReader ==
    [ obj |-> FALSE, file_handle |-> "None", index |-> <<>>, datapoint_ids |-> <<>>,
      pc |-> "idle", id |-> "", meta_bytes |-> <<>> ]

\* no call made yet
NoCall ==
    [ op |-> "none", id |-> "", position |-> 0, outcome |-> "ok",
      rec |-> NotFound, recs |-> <<>> ]

ReadersIdle ==
    /\ readers = [r \in Readers |-> NoReader]
    /\ hpos = [r \in Readers |-> 0]
    /\ rlast = [r \in Readers |-> NoCall]

\* HandleOf when every reader works on the handle of the first one
HandleOf_Shared(r) == "r1"

\* self._file_handle = open(self.archive_path, 'rb'): every reader opens a
\* handle of its own
HandleOf(r) == r

\* AuraReader(archive_path) on the file of the writer
reader_open(r) ==
    /\ ~readers[r].obj
    /\ LET outcome == OpenOutcome(file)
       IN  /\ rlast' = [rlast EXCEPT ![r] = [NoCall EXCEPT !.op = "open", !.outcome = outcome]]
           /\ IF outcome = "ok"
              THEN /\ readers' = [readers EXCEPT ![r] =
                          [NoReader EXCEPT !.obj = TRUE, !.file_handle = "open",
                                           !.index = ReadIndex(file).v,
                                           !.datapoint_ids = datapoint_ids(ReadIndex(file).v)]]
                   \* the handle is left behind the index block
                   /\ hpos' = [hpos EXCEPT ![HandleOf(r)] = Len(file) - FooterSize]
              ELSE UNCHANGED <<readers, hpos>>
    /\ UNCHANGED <<avars, mvars, cvars, svars>>

\* the head of read_datapoint(datapoint_id): the index lookup and the seek;
\* call is the record of the call that made it
BeginRead(r, call, datapoint_id) ==
    IF ~HasKey(readers[r].index, datapoint_id)
    THEN /\ rlast' = [rlast EXCEPT ![r] = [call EXCEPT !.outcome = "NotFound"]]
         /\ UNCHANGED <<readers, hpos>>
    ELSE IF readers[r].file_handle = "None"
    \* self._file_handle is None: None.seek raises AttributeError
    THEN /\ rlast' = [rlast EXCEPT ![r] = [call EXCEPT !.outcome = "AttributeError"]]
         /\ UNCHANGED <<readers, hpos>>
    ELSE /\ rlast' = [rlast EXCEPT ![r] = [call EXCEPT !.outcome = "reading"]]
         /\ readers' = [readers EXCEPT ![r].pc = "header", ![r].id = datapoint_id]
         /\ hpos' = [hpos EXCEPT ![HandleOf(r)] = DictGet(readers[r].index, datapoint_id)[1]]

\* reader.read_datapoint(datapoint_id), up to the seek
reader_read_datapoint(r, datapoint_id) ==
    /\ readers[r].obj
    /\ readers[r].pc = "idle"
    /\ BeginRead(r, [NoCall EXCEPT !.op = "read", !.id = datapoint_id], datapoint_id)
    /\ UNCHANGED <<avars, mvars, cvars, svars>>

\* reader[key] for an int key, up to the seek
reader_getitem(r, key) ==
    /\ readers[r].obj
    /\ readers[r].pc = "idle"
    /\ LET ids == readers[r].datapoint_ids
           call == [NoCall EXCEPT !.op = "getitem", !.position = key]
       IN  IF GetItemOutOfRange(ids, key) \/ key >= Len(ids) \/ key < 0 - Len(ids)
           THEN /\ rlast' = [rlast EXCEPT ![r] = [call EXCEPT !.outcome = "OutOfRange"]]
                /\ UNCHANGED <<readers, hpos>>
           ELSE BeginRead(r, [call EXCEPT !.id = ListAt(ids, key)], ListAt(ids, key))
    /\ UNCHANGED <<avars, mvars, cvars, svars>>

\* self._file_handle.read(8): the length headers are skipped
ReadHeader(r) ==
    /\ readers[r].pc = "header"
    /\ hpos' = [hpos EXCEPT ![HandleOf(r)] = @ + Len(FileRead(file, @, 8))]
    /\ readers' = [readers EXCEPT ![r].pc = "meta"]
    /\ UNCHANGED rlast
    /\ UNCHANGED <<avars, mvars, cvars, svars>>

\* meta_bytes = self._file_handle.read(meta_len); msgpack.unpackb(meta_bytes)
ReadMeta(r) ==
    /\ readers[r].pc = "meta"
    /\ LET meta_len == DictGet(readers[r].index, readers[r].id)[2]
           meta_bytes == FileRead(file, hpos[HandleOf(r)], meta_len)
       IN  /\ hpos' = [hpos EXCEPT ![HandleOf(r)] = @ + Len(meta_bytes)]
           /\ IF UnpackMap(meta_bytes).ok
              THEN /\ readers' = [readers EXCEPT ![r].pc = "tensors", ![r].meta_bytes = meta_bytes]
                   /\ UNCHANGED rlast
              ELSE /\ readers' = [readers EXCEPT ![r].pc = "idle", ![r].meta_bytes = <<>>]
                   /\ rlast' = [rlast EXCEPT ![r].outcome = "BadRecord"]
    /\ UNCHANGED <<avars, mvars, cvars, svars>>

\* tensor_bytes = self._file_handle.read(tensor_len); st_load(tensor_bytes);
\* the record is returned
ReadTensors(r) ==
    /\ readers[r].pc = "tensors"
    /\ LET tensor_len == DictGet(readers[r].index, readers[r].id)[3]
           tensor_bytes == FileRead(file, hpos[HandleOf(r)], tensor_len)
           meta == UnpackMap(readers[r].meta_bytes)
           tensors == st_load(tensor_bytes)
       IN  /\ hpos' = [hpos EXCEPT ![HandleOf(r)] = @ + Len(tensor_bytes)]
           /\ readers' = [readers EXCEPT ![r].pc = "idle", ![r].meta_bytes = <<>>]
           /\ IF tensors.ok
              THEN rlast' = [rlast EXCEPT ![r].outcome = "ok",
                                          ![r].rec = [ok |-> TRUE, meta |-> meta.v,
                                                      tensors |-> tensors.v]]
              ELSE rlast' = [rlast EXCEPT ![r].outcome = "BadRecord"]
    /\ UNCHANGED <<avars, mvars, cvars, svars>>

\* list(reader): __iter__ calls read_datapoint for every id of datapoint_ids;
\* taken as one step of the reader
reader_iter(r) ==
    /\ readers[r].obj
    /\ readers[r].pc = "idle"
    /\ LET ids == readers[r].datapoint_ids
           idx == readers[r].index
           call == [NoCall EXCEPT !.op = "iter"]
           e == DictGet(idx, ids[Len(ids)])
       IN  IF ids = <<>>
           \* the loop body never runs
           THEN /\ rlast' = [rlast EXCEPT ![r] = call]
                /\ UNCHANGED hpos
           ELSE IF readers[r].file_handle = "None"
           THEN /\ rlast' = [rlast EXCEPT ![r] = [call EXCEPT !.outcome = "AttributeError"]]
                /\ UNCHANGED hpos
           ELSE /\ rlast' = [rlast EXCEPT ![r] =
                       [call EXCEPT !.recs = IterAll(file, idx, ids),
                                    !.outcome =
                                        IF \A i \in DOMAIN ids : ReadResult(file, idx, ids[i]).outcome = "ok"
                                        THEN "ok" ELSE "BadRecord"]]
                /\ hpos' = [hpos EXCEPT ![HandleOf(r)] = e[1] + 8 + e[2] + e[3]]
    /\ UNCHANGED readers
    /\ UNCHANGED <<avars, mvars, cvars, svars>>

\* reader.close(): the handle is closed and forgotten
reader_close(r) ==
    /\ readers[r].obj
    /\ readers[r].pc = "idle"
    /\ readers' = [readers EXCEPT ![r].file_handle = "None"]
    /\ rlast' = [rlast EXCEPT ![r] = [NoCall EXCEPT !.op = "close"]]
    /\ UNCHANGED hpos
    /\ UNCHANGED <<avars, mvars, cvars, svars>>

----------------------------------------------------------------------------
(* memory.py: entries, lines, the clock *)

WAL_FLUSH_THRESHOLD == 100

\* NAMESPACES when the tuple holds a fourth name
NAMESPACES_Four == <<"pad", "episodic", "fact", "bogus">>

\* AuraMemoryOS.NAMESPACES, in the order end_session walks them
NAMESPACES == <<"pad", "episodic", "fact">>

NamespaceSet == Range(NAMESPACES)

\* the session id of the one store
SessionId == "s1"

NoTags == [given |-> FALSE, v |-> <<>>]
Tags(v) == [given |-> TRUE, v |-> v]

\* datetime.utcnow().strftime("%Y%m%d_%H%M%S"): the clock reading cut to seconds
Second(t) == t \div TicksPerSecond

\* hashlib.sha256(f"{content}{time.time()}".encode()).hexdigest()[:16]:
\* a function of content and clock reading only, taken to be collision-free
EntryId(content, t) == <<content, t>>

\* MemoryEntry(...) with __post_init__: tags = tags or []
MemoryEntry(namespace, content, source, tags, t) ==
    [ namespace |-> namespace,
      content |-> content,
      timestamp |-> t,
      source |-> source,
      session_id |-> SessionId,
      entry_id |-> EntryId(content, t),
      tags |-> IF tags.given THEN tags.v ELSE <<>> ]

\* json.dumps(asdict(entry), ensure_ascii=False) + "\n": one line holding a JSON object
json_dumps(obj) == [kind |-> "object", obj |-> obj]

\* a line that json.loads rejects with JSONDecodeError
MalformedLine == [kind |-> "malformed", obj |-> <<>>]

\* a line with bytes that are not UTF-8: reading the file in text mode raises
\* UnicodeDecodeError
UndecodableLine == [kind |-> "undecodable", obj |-> <<>>]

\* iterating the file opened with encoding='utf-8' raises no UnicodeDecodeError;
\* the files are short enough to be decoded in one piece, so that a bad byte
\* anywhere raises before the first line is handed out
Decodable(lines) == \A i \in DOMAIN lines : lines[i].kind # "undecodable"

\* json.loads(line) succeeds (no JSONDecodeError)
Parses(line) == line.kind = "object"

\* the entries list built by the read loops: every line that parses, in file order
ParsedEntries(lines) ==
    LET good == SelectSeq(lines, Parses)
    IN  [i \in DOMAIN good |-> good[i].obj]

NoFile == [exists |-> FALSE, lines |-> <<>>]

\* hashlib.sha256(json.dumps(entries, sort_keys=True).encode()).hexdigest()[:8]:
\* a function of the entries only, taken to be collision-free
ContentHash(entries) == entries

\* shard_id = f"{self.namespace}_{timestamp}_{content_hash}"
ShardId(namespace, t, entries) ==
    [namespace |-> namespace, timestamp |-> Second(t), content_hash |-> ContentHash(entries)]

NoneRet == [none |-> TRUE]

ShardInfo(shard_id, namespace, entries) ==
    [ none |-> FALSE,
      shard_id |-> shard_id,
      namespace |-> namespace,
      entry_count |-> Len(entries),
      session_ids |-> {entries[i].session_id : i \in DOMAIN entries} ]

\* open(shard_path, 'w') and the writes: the file at that path is created, or
\* replaced when a shard of that id exists
WriteShard(S, shard_id, entries, t) ==
    {sh \in S : sh.id # shard_id} \cup
    {[id |-> shard_id, lines |-> [i \in DOMAIN entries |-> json_dumps(entries[i])], mtime |-> t]}

----------------------------------------------------------------------------
(* TwoSpeedWAL *)

\* append: the line goes to the end of active.jsonl (created if absent),
\* the counter goes up by one
WalAppend(w, entry) == [exists |-> TRUE, lines |-> Append(w.lines, json_dumps(entry))]

\* needs_flush with > in place of >=
needs_flush_Above(count) == count > WAL_FLUSH_THRESHOLD

\* needs_flush
needs_flush(count) == count >= WAL_FLUSH_THRESHOLD

\* flush_to_shard on the WAL of namespace: w is active.jsonl, c the counter,
\* S the shard directory, t the clock reading; the result holds the three
\* afterwards and the value returned
Flush(w, c, S, namespace, t) ==
    LET entries == ParsedEntries(w.lines)
        shard_id == ShardId(namespace, t, entries)
    IN  IF ~w.exists \/ c = 0
        THEN [wal |-> w, count |-> c, shards |-> S, ret |-> NoneRet]
        \* except Exception around the read loop: return None
        ELSE IF ~Decodable(w.lines)
        THEN [wal |-> w, count |-> c, shards |-> S, ret |-> NoneRet]
        ELSE IF entries = <<>>
        THEN [wal |-> w, count |-> c, shards |-> S, ret |-> NoneRet]
        ELSE [ wal |-> NoFile,
               count |-> 0,
               shards |-> WriteShard(S, shard_id, entries, t),
               ret |-> ShardInfo(shard_id, namespace, entries) ]

----------------------------------------------------------------------------
(* AuraMemoryOS *)

NoRets == [n \in NamespaceSet |-> NoneRet]

\* the files and the counters of the store
StoreState == [wal_file |-> wal_file, entry_count |-> entry_count, shards |-> shards]

\* WalOf when the three tiers are given one WAL object
WalOf_Pad(namespace) == "pad"

\* self.wals[namespace]: the WAL object of the tier, built on the directories
\* memory_root / namespace / "wal" and memory_root / namespace / "shards"
WalOf(namespace) == namespace

\* what write does to the store after the namespace test: append to the WAL of
\* the tier, then flush_to_shard on it if needs_flush; t is the clock reading
WriteEffect(st, namespace, entry, t) ==
    LET k == WalOf(namespace)
        w1 == WalAppend(st.wal_file[k], entry)
        c1 == st.entry_count[k] + 1
        f == IF needs_flush(c1)
             THEN Flush(w1, c1, st.shards[k], k, t)
             ELSE [wal |-> w1, count |-> c1, shards |-> st.shards[k], ret |-> NoneRet]
    IN  [ wal_file |-> [st.wal_file EXCEPT ![k] = f.wal],
          entry_count |-> [st.entry_count EXCEPT ![k] = f.count],
          shards |-> [st.shards EXCEPT ![k] = f.shards],
          ret |-> f.ret ]

\* what self.wals[namespace].flush_to_shard() does to the store
FlushEffect(st, namespace, t) ==
    LET k == WalOf(namespace)
        f == Flush(st.wal_file[k], st.entry_count[k], st.shards[k], k, t)
    IN  [ wal_file |-> [st.wal_file EXCEPT ![k] = f.wal],
          entry_count |-> [st.entry_count EXCEPT ![k] = f.count],
          shards |-> [st.shards EXCEPT ![k] = f.shards],
          ret |-> f.ret ]

\* write(namespace, content, source, tags)
write(namespace, content, source, tags) ==
    IF namespace \notin NamespaceSet
    THEN /\ mlast' = [op |-> "write", ns |-> namespace, outcome |-> "InvalidNamespace",
                      ret |-> NoRets]
         /\ UNCHANGED <<wal_file, entry_count, shards, now, written>>
         /\ UNCHANGED <<avars, svars>>
         /\ UNCHANGED <<rvars, cvars>>
    ELSE LET entry == MemoryEntry(namespace, content, source, tags, now)
             e == WriteEffect(StoreState, namespace, entry, now)
         IN  /\ wal_file' = e.wal_file
             /\ entry_count' = e.entry_count
             /\ shards' = e.shards
             /\ written' = Append(written, entry)
             /\ mlast' = [op |-> "write", ns |-> namespace, outcome |-> "ok",
                          ret |-> [NoRets EXCEPT ![namespace] = e.ret]]
             /\ UNCHANGED now
             /\ UNCHANGED <<avars, svars>>
             /\ UNCHANGED <<rvars, cvars>>

\* self.wals[namespace].flush_to_shard(), called directly
flush_to_shard(namespace) ==
    LET e == FlushEffect(StoreState, namespace, now)
    IN  /\ wal_file' = e.wal_file
        /\ entry_count' = e.entry_count
        /\ shards' = e.shards
        /\ mlast' = [op |-> "flush", ns |-> namespace, outcome |-> "ok",
                     ret |-> [NoRets EXCEPT ![namespace] = e.ret]]
        /\ UNCHANGED <<now, written>>
        /\ UNCHANGED <<avars, svars>>
        /\ UNCHANGED <<rvars, cvars>>

\* end_session(): flush_to_shard on each of the three WALs in turn
end_session ==
    LET f == [n \in NamespaceSet |-> Flush(wal_file[n], entry_count[n], shards[n], n, now)]
    IN  /\ wal_file' = [n \in NamespaceSet |-> f[n].wal]
        /\ entry_count' = [n \in NamespaceSet |-> f[n].count]
        /\ shards' = [n \in NamespaceSet |-> f[n].shards]
        /\ mlast' = [op |-> "end_session", ns |-> "", outcome |-> "ok",
                     ret |-> [n \in NamespaceSet |-> f[n].ret]]
        /\ UNCHANGED <<now, written>>
        /\ UNCHANGED <<avars, svars>>
        /\ UNCHANGED <<rvars, cvars>>

\* the system clock moves on between two calls
Tick ==
    /\ now < MaxTime
    /\ now' = now + 1
    /\ UNCHANGED <<wal_file, entry_count, shards, written, mlast>>
    /\ UNCHANGED <<avars, svars>>
    /\ UNCHANGED <<rvars, cvars>>

----------------------------------------------------------------------------
(* TwoSpeedWAL called directly, flush_to_shard step by step, and the stop    *)
(* and restart of the process                                               *)

\* no shard
NoShard == [none |-> TRUE]

\* flush_to_shard is not under way
NoFlush == [at |-> "idle", shard_id |-> NoShard, entries |-> <<>>]

\* CountAfterAppend when append leaves the counter alone
CountAfterAppend_Same(c) == c

\* self._entry_count += 1
CountAfterAppend(c) == c + 1

\* self.wals[namespace].append(entry), with no check of needs_flush after it
wal_append(namespace, content) ==
    LET entry == MemoryEntry(namespace, content, "agent", NoTags, now)
    IN  /\ wal_file' = [wal_file EXCEPT ![namespace] = WalAppend(@, entry)]
        /\ entry_count' = [entry_count EXCEPT ![namespace] = CountAfterAppend(@)]
        /\ mlast' = [op |-> "append", ns |-> namespace, outcome |-> "ok", ret |-> NoRets]
        /\ UNCHANGED <<shards, now, written>>
        /\ UNCHANGED <<avars, svars>>
        /\ UNCHANGED <<rvars, cvars>>

\* self.wals[namespace].needs_flush, read by the caller
wal_needs_flush(namespace) ==
    /\ mlast' = [op |-> "needs_flush", ns |-> namespace,
                 outcome |-> IF needs_flush(entry_count[namespace]) THEN "true" ELSE "false",
                 ret |-> NoRets]
    /\ UNCHANGED <<wal_file, entry_count, shards, now, written>>
    /\ UNCHANGED <<avars, svars>>
    /\ UNCHANGED <<rvars, cvars>>

\* CountWalEntries when a new process starts every counter at 0
CountWalEntries_Zero(w) == 0

\* _count_wal_entries: the lines of active.jsonl that are not blank, 0 when
\* the file is absent or reading it raises
CountWalEntries(w) == IF w.exists /\ Decodable(w.lines) THEN Len(w.lines) ELSE 0

\* the store is between two calls
Idle == up /\ \A n \in NamespaceSet : fpc[n].at = "idle"

\* flush_to_shard up to shard_path.stat(): the early returns, or the shard
\* file written while active.jsonl is still there
flush_begin(namespace) ==
    /\ Idle
    /\ LET w == wal_file[namespace]
           entries == ParsedEntries(w.lines)
           shard_id == ShardId(namespace, now, entries)
       IN  IF ~w.exists \/ entry_count[namespace] = 0 \/ ~Decodable(w.lines) \/ entries = <<>>
           THEN /\ mlast' = [op |-> "flush", ns |-> namespace, outcome |-> "ok", ret |-> NoRets]
                /\ UNCHANGED <<shards, fpc>>
           ELSE /\ shards' = [shards EXCEPT ![namespace] = WriteShard(@, shard_id, entries, now)]
                /\ fpc' = [fpc EXCEPT ![namespace] =
                              [at |-> "written", shard_id |-> shard_id, entries |-> entries]]
                /\ mlast' = [op |-> "flush", ns |-> namespace, outcome |-> "running",
                             ret |-> NoRets]
    /\ UNCHANGED <<wal_file, entry_count, now, written, up, torn>>
    /\ UNCHANGED <<avars, svars>>
    /\ UNCHANGED rvars

\* the rest of flush_to_shard: unlink of active.jsonl, counter reset, return
flush_end(namespace) ==
    /\ up
    /\ fpc[namespace].at = "written"
    /\ wal_file' = [wal_file EXCEPT ![namespace] = NoFile]
    /\ entry_count' = [entry_count EXCEPT ![namespace] = 0]
    /\ fpc' = [fpc EXCEPT ![namespace] = NoFlush]
    /\ torn' = [torn EXCEPT ![namespace] = NoShard]
    /\ mlast' = [op |-> "flush", ns |-> namespace, outcome |-> "ok",
                 ret |-> [NoRets EXCEPT ![namespace] =
                             ShardInfo(fpc[namespace].shard_id, namespace, fpc[namespace].entries)]]
    /\ UNCHANGED <<shards, now, written, up>>
    /\ UNCHANGED <<avars, svars>>
    /\ UNCHANGED rvars

\* the process stops: the objects in memory are gone, the files stay
stop ==
    /\ up
    /\ up' = FALSE
    /\ entry_count' = [n \in NamespaceSet |-> 0]
    /\ fpc' = [n \in NamespaceSet |-> NoFlush]
    /\ torn' = [n \in NamespaceSet |->
                   IF fpc[n].at = "written" THEN fpc[n].shard_id ELSE torn[n]]
    /\ mlast' = [op |-> "stop", ns |-> "", outcome |-> "ok", ret |-> NoRets]
    /\ UNCHANGED <<wal_file, shards, now, written>>
    /\ UNCHANGED <<avars, svars>>
    /\ UNCHANGED rvars

\* the lines a shard file may hold when the process stops inside the loop that
\* writes it: some of the entries, the last of them whole or cut
PartialShards(entries) ==
    { [i \in 1 .. k |-> json_dumps(entries[i])] \o tail :
        k \in 0 .. (Len(entries) - 1), tail \in {<<>>, <<MalformedLine>>} }

\* WalWhileWriting when active.jsonl is unlinked before the shard is written
WalWhileWriting_Unlinked(w) == NoFile

\* active.jsonl while the shard is written: the unlink comes after the with
\* block that writes the shard
WalWhileWriting(w) == w

\* flush_to_shard cut short by the stop of the process while the shard file,
\* opened with 'w', is being written
stop_in_write(namespace, lines) ==
    /\ Idle
    /\ LET w == wal_file[namespace]
           entries == ParsedEntries(w.lines)
           shard_id == ShardId(namespace, now, entries)
       IN  /\ w.exists /\ entry_count[namespace] # 0 /\ Decodable(w.lines) /\ entries # <<>>
           /\ lines \in PartialShards(entries)
           /\ shards' = [shards EXCEPT ![namespace] =
                             {sh \in @ : sh.id # shard_id}
                                 \cup {[id |-> shard_id, lines |-> lines, mtime |-> now]}]
           /\ wal_file' = [wal_file EXCEPT ![namespace] = WalWhileWriting(@)]
           /\ torn' = [torn EXCEPT ![namespace] = shard_id]
    /\ up' = FALSE
    /\ entry_count' = [n \in NamespaceSet |-> 0]
    /\ mlast' = [op |-> "stop", ns |-> "", outcome |-> "ok", ret |-> NoRets]
    /\ UNCHANGED <<now, written, fpc>>
    /\ UNCHANGED <<avars, svars>>
    /\ UNCHANGED rvars

\* the lines of the shard file when an exception ends flush_to_shard after the
\* file was opened: some of the lines when a write raised, all of them when
\* the stat or the unlink after the with block raised
FailedShards(entries) ==
    PartialShards(entries) \cup {[i \in DOMAIN entries |-> json_dumps(entries[i])]}

\* flush_to_shard ended by an exception inside its second try block: the
\* handler logs the error and returns None
flush_raises(namespace, lines) ==
    /\ Idle
    /\ LET w == wal_file[namespace]
           entries == ParsedEntries(w.lines)
           shard_id == ShardId(namespace, now, entries)
       IN  /\ w.exists /\ entry_count[namespace] # 0 /\ Decodable(w.lines) /\ entries # <<>>
           /\ lines \in FailedShards(entries)
           /\ shards' = [shards EXCEPT ![namespace] =
                             {sh \in @ : sh.id # shard_id}
                                 \cup {[id |-> shard_id, lines |-> lines, mtime |-> now]}]
    /\ mlast' = [op |-> "flush", ns |-> namespace, outcome |-> "failed", ret |-> NoRets]
    /\ UNCHANGED <<wal_file, entry_count, now, written>>
    /\ UNCHANGED <<avars, svars>>
    /\ UNCHANGED <<rvars, cvars>>

\* a new process: AuraMemoryOS(root) builds the three TwoSpeedWAL objects,
\* each counting the lines of its active.jsonl
restart ==
    /\ ~up
    /\ up' = TRUE
    /\ entry_count' = [n \in NamespaceSet |-> CountWalEntries(wal_file[n])]
    /\ mlast' = [op |-> "init", ns |-> "", outcome |-> "ok", ret |-> NoRets]
    /\ UNCHANGED <<wal_file, shards, now, written, fpc, torn>>
    /\ UNCHANGED <<avars, svars>>
    /\ UNCHANGED rvars

----------------------------------------------------------------------------
(* AuraMemoryOS.query.  A text is the sequence of its whitespace-separated   *)
(* words; a score is the fraction overlap / len(query_words), kept as        *)
(* numerator and denominator.                                                *)

\* an optional str argument: None, or a string
NoStr == [given |-> FALSE, v |-> ""]
Str(v) == [given |-> TRUE, v |-> v]

\* the truth value Python gives an optional str: None and "" are false
TruthyStr(a) == a.given /\ a.v # ""

\* str.lower() on a word
Lower(w) == IF w = "X" THEN "x" ELSE IF w = "Y" THEN "y" ELSE w

\* set(text.lower().split())
WordSet(text) == {Lower(text[i]) : i \in DOMAIN text}

\* read_wal: the entries of active.jsonl, lines that do not parse left out;
\* an exception while reading ends the loop with what was read before
read_wal(w) ==
    IF ~w.exists THEN <<>>
    ELSE IF ~Decodable(w.lines) THEN <<>>
    ELSE ParsedEntries(w.lines)

\* overlap = len(query_words & content_words)
Overlap(query_words, entry) == Cardinality(query_words \cap WordSet(entry.content))

\* score = overlap / len(query_words)
Score(overlap, query_words) == [num |-> overlap, den |-> Cardinality(query_words)]

\* 'location': 'wal', or the stem of the shard file
InWal == [wal |-> TRUE, shard |-> NoShard]
InShard(shard_id) == [wal |-> FALSE, shard |-> shard_id]

\* the dict query appends for an entry with overlap > 0
Result(entry, ns, query_words, location) ==
    [ content |-> entry.content,
      namespace |-> ns,
      timestamp |-> entry.timestamp,
      source |-> entry.source,
      score |-> Score(Overlap(query_words, entry), query_words),
      location |-> location ]

\* one pass of the loop over entries: the results appended, in entry order
Hits(entries, ns, query_words, location) ==
    LET match == SelectSeq(entries, LAMBDA e : Overlap(query_words, e) > 0)
    IN  [i \in DOMAIN match |-> Result(match[i], ns, query_words, location)]

\* the orders in which glob("*.jsonl") may hand out the shards of a directory
Orders(S) ==
    {o \in [1 .. Cardinality(S) -> S] : \A i, j \in 1 .. Cardinality(S) : o[i] = o[j] => i = j}

\* one enumeration order for the shard directory of every namespace
ShardOrders ==
    { [pad |-> a, episodic |-> b, fact |-> c] :
        a \in Orders(shards["pad"]), b \in Orders(shards["episodic"]),
        c \in Orders(shards["fact"]) }

\* NamespaceHits with the shards searched before the active log
NamespaceHits_ShardsFirst(ns, order, query_words) ==
    Flatten([i \in DOMAIN order |->
        Hits(ParsedEntries(order[i].lines), ns, query_words, InShard(order[i].id))])
        \o Hits(read_wal(wal_file[ns]), ns, query_words, InWal)

\* the results of one namespace: the active log first, then shard after shard
NamespaceHits(ns, order, query_words) ==
    Hits(read_wal(wal_file[ns]), ns, query_words, InWal)
        \o Flatten([i \in DOMAIN order |->
               Hits(ParsedEntries(order[i].lines), ns, query_words, InShard(order[i].id))])

\* a.score >= b.score
ScoreGE(a, b) == a.num * b.den >= b.num * a.den

\* SortByScore when results.sort is left out
SortByScore_None(rs) == rs

\* results.sort(key=lambda x: x['score'], reverse=True): a stable sort, equal
\* scores keep the order they were appended in
RECURSIVE SortByScore(_)
SortByScore(rs) ==
    IF rs = <<>> THEN <<>>
    ELSE LET front == SortByScore(SubSeq(rs, 1, Len(rs) - 1))
             x == rs[Len(rs)]
             k == Cardinality({i \in DOMAIN front : ScoreGE(front[i].score, x.score)})
         IN  SubSeq(front, 1, k) \o <<x>> \o SubSeq(front, k + 1, Len(front))

\* results[:top_k] of a Python list: a negative top_k counts from the end
Slice(rs, top_k) ==
    IF top_k >= 0
    THEN SubSeq(rs, 1, IF top_k < Len(rs) THEN top_k ELSE Len(rs))
    ELSE SubSeq(rs, 1, IF Len(rs) + top_k > 0 THEN Len(rs) + top_k ELSE 0)

\* Scope when the namespace argument is not looked at
Scope_All(namespace) == NAMESPACES

\* namespaces = [namespace] if namespace else list(self.NAMESPACES)
Scope(namespace) == IF TruthyStr(namespace) THEN <<namespace.v>> ELSE NAMESPACES

\* query(query_text, namespace, top_k), the shard directories enumerated in
\* the given orders
query(query_text, namespace, top_k, order) ==
    LET namespaces == Scope(namespace)
        query_words == WordSet(query_text)
        results == Flatten([i \in DOMAIN namespaces |->
                       NamespaceHits(namespaces[i], order[namespaces[i]], query_words)])
        call == [ op |-> "query", ns |-> "", ret |-> NoRets,
                  query_text |-> query_text, namespace |-> namespace, top_k |-> top_k ]
    IN  /\ \* self.wals[ns] for a name that is no key of self.wals
           IF \E i \in DOMAIN namespaces : namespaces[i] \notin NamespaceSet
           THEN mlast' = [outcome |-> "KeyError", results |-> <<>>] @@ call
           ELSE mlast' = [outcome |-> "ok",
                          results |-> Slice(SortByScore(results), top_k)] @@ call
        /\ UNCHANGED <<wal_file, entry_count, shards, now, written>>
        /\ UNCHANGED <<avars, svars>>
        /\ UNCHANGED <<rvars, cvars>>

----------------------------------------------------------------------------
(* AuraMemoryOS.list_shards, show_usage and prune_shards.  A date text that  *)
(* strptime accepts is named by the clock reading at which that day starts.  *)

\* OpenRead when the shard is opened for writing
OpenRead_Truncate(lines) == <<>>

\* open(shard_path, 'r', encoding='utf-8'): the lines of the file after it was
\* opened and read
OpenRead(lines) == lines

\* list_shards(): per namespace the shards with their line counts and
\* modification times, and the counter of the active log
list_shards ==
    LET opened == [n \in NamespaceSet |->
                      {[sh EXCEPT !.lines = OpenRead(@)] : sh \in shards[n]}]
        listing == [n \in NamespaceSet |->
                      [ shards |-> {[id |-> sh.id, entry_count |-> Len(sh.lines),
                                     modified |-> sh.mtime] : sh \in opened[n]},
                        buffered |-> entry_count[n] ]]
    IN  /\ shards' = opened
        /\ mlast' = [op |-> "list_shards", ns |-> "", outcome |-> "ok", ret |-> NoRets,
                     listing |-> listing]
        /\ UNCHANGED <<wal_file, entry_count, now, written>>
        /\ UNCHANGED <<avars, svars>>
        /\ UNCHANGED <<rvars, cvars>>

\* show_usage(): per namespace the number of shards and of buffered entries
show_usage ==
    LET usage == [n \in NamespaceSet |->
                    [shard_count |-> Cardinality(shards[n]), wal_entries |-> entry_count[n]]]
    IN  /\ mlast' = [op |-> "show_usage", ns |-> "", outcome |-> "ok", ret |-> NoRets,
                     usage |-> usage]
        /\ UNCHANGED <<wal_file, entry_count, shards, now, written>>
        /\ UNCHANGED <<avars, svars>>
        /\ UNCHANGED <<rvars, cvars>>

\* the texts passed as before_date: a date YYYY-MM-DD, the empty string, and a
\* text that is no date
DateText(start) == [parses |-> TRUE, start |-> start, empty |-> FALSE]
EmptyText == [parses |-> FALSE, start |-> 0, empty |-> TRUE]
GarbageText == [parses |-> FALSE, start |-> 0, empty |-> FALSE]

\* an optional before_date: None, or a text
NoDate == [given |-> FALSE, v |-> EmptyText]
Date(text) == [given |-> TRUE, v |-> text]

\* the truth value of before_date: None and "" are false
TruthyDate(d) == d.given /\ ~d.v.empty

\* an optional shard_ids: None, or a list, kept as the set of its members
NoIds == [given |-> FALSE, v |-> {}]
IdList(ids) == [given |-> TRUE, v |-> ids]

\* the truth value of shard_ids: None and [] are false
TruthyIds(l) == l.given /\ l.v # {}

\* Before with <= in place of <
Before_OrEqual(shard_mtime, cutoff) == shard_mtime <= cutoff

\* shard_mtime < cutoff
Before(shard_mtime, cutoff) == shard_mtime < cutoff

\* the loop of prune_shards over the shards still to visit, given as
\* (namespace, shard) pairs in visiting order; S holds the shards on disk,
\* deleted counts the unlinks.  An unparsable before_date ends the call at the
\* shard where it is met.
RECURSIVE PruneLoop(_, _, _, _, _)
PruneLoop(todo, S, deleted, before_date, shard_ids) ==
    IF todo = <<>> THEN [shards |-> S, deleted |-> deleted, outcome |-> "ok"]
    ELSE LET ns == todo[1][1]
             shard == todo[1][2]
             byId == TruthyIds(shard_ids) /\ shard.id \in shard_ids.v
         IN  IF TruthyDate(before_date) /\ ~before_date.v.parses
             THEN [shards |-> S, deleted |-> deleted, outcome |-> "InvalidDateFormat"]
             ELSE LET byDate == TruthyDate(before_date) /\ Before(shard.mtime, before_date.v.start)
                  IN  IF byId \/ byDate
                      THEN PruneLoop(Tail(todo), [S EXCEPT ![ns] = @ \ {shard}],
                                     deleted + 1, before_date, shard_ids)
                      ELSE PruneLoop(Tail(todo), S, deleted, before_date, shard_ids)

\* prune_shards(before_date, shard_ids, namespace), the shard directories
\* enumerated in the given orders; a namespace without a directory is passed over
prune_shards(before_date, shard_ids, namespace, order) ==
    LET namespaces == Scope(namespace)
        todo == Flatten([i \in DOMAIN namespaces |->
                    IF namespaces[i] \in NamespaceSet
                    THEN [j \in DOMAIN order[namespaces[i]] |->
                             <<namespaces[i], order[namespaces[i]][j]>>]
                    ELSE <<>>])
        p == PruneLoop(todo, shards, 0, before_date, shard_ids)
    IN  /\ shards' = p.shards
        /\ mlast' = [op |-> "prune_shards", ns |-> "", outcome |-> p.outcome, ret |-> NoRets,
                     before_date |-> before_date, shard_ids |-> shard_ids,
                     namespace |-> namespace, deleted |-> p.deleted]
        /\ UNCHANGED <<wal_file, entry_count, now, written>>
        /\ UNCHANGED <<avars, svars>>
        /\ UNCHANGED <<rvars, cvars>>

----------------------------------------------------------------------------
(* The MCP server (mcp_server.py): read_message, handle_request, main *)

\* the ids of the requests on the input
RequestIds == 1..MaxRequestId

\* One frame of the input: its header lines, a blank line, its body.
\*   header: "length" (Content-Length: <the length of the body>), "absent"
\*   (header lines without Content-Length), "zero" (Content-Length: 0);
\*   body: "request" (a JSON object, the ping request with that id),
\*   "malformed" (not JSON), "array" (JSON, but not an object), "null" (the
\*   JSON null), "" (no body).
Request(i) == [header |-> "length", body |-> "request", id |-> i]
Malformed  == [header |-> "length", body |-> "malformed", id |-> 0]
NotObject  == [header |-> "length", body |-> "array", id |-> 0]
NullBody   == [header |-> "length", body |-> "null", id |-> 0]
NoLength   == [header |-> "absent", body |-> "", id |-> 0]
ZeroLength == [header |-> "zero", body |-> "", id |-> 0]

Frames == {Request(i) : i \in RequestIds}
            \cup {Malformed, NotObject, NullBody, NoLength, ZeroLength}

\* the values json.loads returns, and Python's None
PyNone == [kind |-> "None", id |-> 0]
json_loads(f) ==
    IF f.body = "request" THEN [kind |-> "object", id |-> f.id]
    ELSE IF f.body = "array" THEN [kind |-> "array", id |-> 0]
    ELSE PyNone

\* int(headers.get("Content-Length", 0)): whether it is 0
NoContent(f) == f.header \in {"absent", "zero"}

\* read_message(): None at the end of the input, None when the content length
\* is 0, else json.loads of the body, which raises on a body that is not JSON
read_message(in) ==
    IF in = <<>>
    THEN [outcome |-> "ok", message |-> PyNone, rest |-> in]
    ELSE IF NoContent(Head(in))
    THEN [outcome |-> "ok", message |-> PyNone, rest |-> Tail(in)]
    ELSE IF Head(in).body = "malformed"
    THEN [outcome |-> "JSONDecodeError", message |-> PyNone, rest |-> Tail(in)]
    ELSE [outcome |-> "ok", message |-> json_loads(Head(in)), rest |-> Tail(in)]

\* handle_request(message): the ping request is answered with its id;
\* request.get raises on a message that is not an object
handle_request(message, out) ==
    IF message.kind = "object"
    THEN [outcome |-> "ok", out |-> Append(out, message.id)]
    ELSE [outcome |-> "AttributeError", out |-> out]

\* one pass of the loop of main(): break on None, continue on an exception
main_step ==
    /\ serving = "running"
    /\ LET r == read_message(stdin)
       IN  /\ stdin' = r.rest
           /\ IF r.outcome = "JSONDecodeError"
              THEN UNCHANGED <<stdout, serving>>
              ELSE IF r.message = PyNone
              THEN /\ serving' = "ended"
                   /\ UNCHANGED stdout
              ELSE /\ stdout' = handle_request(r.message, stdout).out
                   /\ UNCHANGED serving
    /\ UNCHANGED <<avars, mvars, rvars, cvars>>

\* KeyboardInterrupt in main(): break
keyboard_interrupt ==
    /\ serving = "running"
    /\ serving' = "interrupted"
    /\ UNCHANGED <<stdin, stdout>>
    /\ UNCHANGED <<avars, mvars, rvars, cvars>>

\* main() has not been called
ServerIdle ==
    /\ stdin = <<>>
    /\ stdout = <<>>
    /\ serving = "not started"

----------------------------------------------------------------------------
(* Specifications of the memory store *)

\* the process runs and no flush is under way
ProcessIdle ==
    /\ up = TRUE
    /\ fpc = [n \in NamespaceSet |-> NoFlush]
    /\ torn = [n \in NamespaceSet |-> NoShard]

\* AuraMemoryOS(root, session_id) on an empty root: TwoSpeedWAL.__init__ finds
\* no active.jsonl and no shard
InitStore ==
    /\ wal_file = [n \in NamespaceSet |-> NoFile]
    /\ entry_count = [n \in NamespaceSet |-> 0]
    /\ shards = [n \in NamespaceSet |-> {}]
    /\ now = 0
    /\ written = <<>>
    /\ mlast = [op |-> "init", ns |-> "", outcome |-> "ok", ret |-> NoRets]
    /\ ProcessIdle

\* the writer is not in use
ArchiveIdle ==
    /\ file = <<>>
    /\ pos = 0
    /\ index = <<>>
    /\ closed = FALSE
    /\ file_handle = "open"
    /\ alive = TRUE
    /\ scope = "plain"
    /\ nClose = 0
    /\ appended = <<>>
    /\ last = [op |-> "init", id |-> "", outcome |-> "ok"]
    /\ ReadersIdle

\* (content, source, tags) of the write calls
WriteInputs ==
    { [content |-> "a", source |-> "agent", tags |-> NoTags],
      [content |-> "b", source |-> "user", tags |-> Tags(<<"t">>)] }

NamespaceInputs == NamespaceSet \cup {"bogus"}

InitMemory == InitStore /\ ArchiveIdle /\ ServerIdle

NextMemory ==
    \/ \E n \in NamespaceInputs, inp \in WriteInputs :
          /\ Len(written) < MaxWrites
          /\ write(n, inp.content, inp.source, inp.tags)
    \/ \E n \in NamespaceSet : flush_to_shard(n)
    \/ end_session
    \/ Tick

SpecMemory == InitMemory /\ [][NextMemory]_vars

InitThreshold == InitStore /\ ArchiveIdle /\ ServerIdle

NextThreshold ==
    \/ \E n \in NamespaceSet :
          /\ Len(written) < MaxThresholdWrites
          /\ IF Len(written) < MaxSide THEN TRUE ELSE n = written[Len(written)].namespace
          /\ write(n, "a", "agent", NoTags)
    \/ /\ Len(written) >= WAL_FLUSH_THRESHOLD - TickWindow
       /\ Tick

SpecThreshold == InitThreshold /\ [][NextThreshold]_vars

\* the store of SpecThreshold with flush_to_shard called on any tier while the
\* first few entries are written
NextTiers ==
    \/ \E n \in NamespaceSet :
          /\ Len(written) < MaxThresholdWrites
          /\ IF Len(written) < MaxSide THEN TRUE ELSE n = written[Len(written)].namespace
          /\ write(n, "a", "agent", NoTags)
    \/ \E n \in NamespaceSet :
          /\ Len(written) <= MaxSide
          /\ flush_to_shard(n)
    \/ /\ Len(written) >= WAL_FLUSH_THRESHOLD - TickWindow
       /\ Tick

SpecTiers == InitThreshold /\ [][NextTiers]_vars

\* the WAL of one namespace filled past the threshold by direct appends,
\* the two others holding a few entries
NextWal ==
    \/ \E n \in NamespaceSet :
          /\ Len(wal_file[n].lines) < MaxThresholdWrites
          /\ n = "pad" \/ Len(wal_file[n].lines) < MaxSide
          /\ wal_append(n, "a")
    \/ \E n \in NamespaceSet : wal_needs_flush(n)

SpecWal == InitMemory /\ [][NextWal]_vars

\* the namespaces written to when the process may stop
CrashNamespaces == {"pad", "fact"}

\* one store whose process may stop at any moment, between the two halves of
\* a flush included, and be started again
NextCrash ==
    \/ \E n \in CrashNamespaces :
          /\ Idle
          /\ Len(written) < MaxWrites
          /\ write(n, "a", "agent", NoTags)
    \/ \E n \in NamespaceSet : flush_begin(n)
    \/ \E n \in NamespaceSet : flush_end(n)
    \/ stop
    \/ restart
    \/ Idle /\ Tick

SpecCrash == InitMemory /\ [][NextCrash]_vars

\* the store of SpecCrash whose process may also stop while a shard is written
NextCrashWrite ==
    \/ NextCrash
    \/ \E lines \in PartialShards(ParsedEntries(wal_file["pad"].lines)) :
          stop_in_write("pad", lines)

SpecCrashWrite == InitMemory /\ [][NextCrashWrite]_vars

\* one store whose flushes may be ended by an exception while the shard is
\* written or the log is deleted
NextFlushFail ==
    \/ \E n \in CrashNamespaces :
          /\ Len(written) < MaxWrites
          /\ write(n, "a", "agent", NoTags)
    \/ \E n \in CrashNamespaces : flush_to_shard(n)
    \/ \E lines \in FailedShards(ParsedEntries(wal_file["pad"].lines)) :
          flush_raises("pad", lines)
    \/ Tick

SpecFlushFail == InitMemory /\ [][NextFlushFail]_vars

\* an entry a process before this one wrote to the scratch pad
OldEntry(content) == MemoryEntry("pad", content, "user", NoTags, 0)

\* the active log of the scratch pad as the process finds it at its start:
\* absent, or left by a process before it, whole or with broken lines
FoundLogs ==
    { NoFile,
      [exists |-> TRUE, lines |-> <<MalformedLine>>],
      [exists |-> TRUE, lines |-> <<json_dumps(OldEntry(<<"x">>)), MalformedLine,
                                    json_dumps(OldEntry(<<"z">>))>>],
      [exists |-> TRUE, lines |-> <<json_dumps(OldEntry(<<"x">>)), UndecodableLine>>] }

\* AuraMemoryOS(root) on a root that holds at most an active log of the pad
InitQuery ==
    /\ wal_file \in {[n \in NamespaceSet |-> IF n = "pad" THEN w ELSE NoFile] : w \in FoundLogs}
    /\ entry_count = [n \in NamespaceSet |-> CountWalEntries(wal_file[n])]
    /\ shards = [n \in NamespaceSet |-> {}]
    /\ now = 0
    /\ written = <<>>
    /\ mlast = [op |-> "init", ns |-> "", outcome |-> "ok", ret |-> NoRets]
    /\ ProcessIdle
    /\ ArchiveIdle
    /\ ServerIdle

\* the namespaces and the texts written before the queries
QueryNamespaces == {"pad", "fact"}
QueryContents == {<<"x">>, <<"X", "y">>}

\* (query_text, namespace, top_k) of the query calls
QueryInputs ==
    { [query_text |-> <<"Y", "x", "x">>, namespace |-> NoStr, top_k |-> k] :
        k \in {0 - 1, 0, 1, 5} }
    \cup
    { [query_text |-> <<>>, namespace |-> NoStr, top_k |-> 5] }
    \cup
    { [query_text |-> <<"x">>, namespace |-> n, top_k |-> 5] :
        n \in {Str(""), Str("pad"), Str("fact"), Str("bogus")} }

\* one store that is written to, flushed and queried
NextQuery ==
    \/ \E n \in QueryNamespaces, c \in QueryContents :
          /\ Len(written) < MaxWrites
          /\ write(n, c, "agent", NoTags)
    \/ \E n \in QueryNamespaces : flush_to_shard(n)
    \/ end_session
    \/ \E q \in QueryInputs, order \in ShardOrders :
          query(q.query_text, q.namespace, q.top_k, order)

SpecQuery == InitQuery /\ [][NextQuery]_vars

InitPrune == InitStore /\ ArchiveIdle /\ ServerIdle

\* the namespaces written to before the shards are listed and pruned
PruneNamespaces == {"pad", "fact"}

\* the ids of all shards on disk
ShardIdsOnDisk == UNION {{sh.id : sh \in shards[n]} : n \in NamespaceSet}

\* (before_date, shard_ids, namespace) of the prune_shards calls
PruneInputs ==
    { [before_date |-> d, shard_ids |-> NoIds, namespace |-> n] :
        d \in {Date(DateText(t)) : t \in 0 .. MaxTime + 1},
        n \in {NoStr, Str("pad")} }
    \cup
    { [before_date |-> d, shard_ids |-> IdList({id}), namespace |-> NoStr] :
        d \in {NoDate, Date(EmptyText), Date(GarbageText)}, id \in ShardIdsOnDisk }
    \cup
    { [before_date |-> NoDate, shard_ids |-> IdList({id}), namespace |-> n] :
        id \in ShardIdsOnDisk, n \in {Str("fact"), Str("")} }
    \cup
    { [before_date |-> Date(GarbageText), shard_ids |-> NoIds, namespace |-> NoStr],
      [before_date |-> Date(DateText(MaxTime + 1)), shard_ids |-> NoIds,
       namespace |-> Str("bogus")],
      [before_date |-> NoDate, shard_ids |-> IdList({}), namespace |-> NoStr],
      [before_date |-> NoDate, shard_ids |-> NoIds, namespace |-> NoStr] }

\* one store that is written to and flushed while its shards are listed,
\* measured and pruned
NextPrune ==
    \/ \E n \in PruneNamespaces :
          /\ Len(written) < MaxWrites
          /\ write(n, "a", "agent", NoTags)
    \/ \E n \in PruneNamespaces : flush_to_shard(n)
    \/ Tick
    \/ list_shards
    \/ show_usage
    \/ \E inp \in PruneInputs, order \in ShardOrders :
          prune_shards(inp.before_date, inp.shard_ids, inp.namespace, order)

SpecPrune == InitPrune /\ [][NextPrune]_vars

\* the inputs of the server: every sequence of at most MaxMessages frames
RECURSIVE FrameSeqs(_)
FrameSeqs(n) ==
    IF n = 0 THEN {<<>>}
    ELSE FrameSeqs(n - 1)
           \cup {Append(q, f) : q \in {x \in FrameSeqs(n - 1) : Len(x) = n - 1}, f \in Frames}

\* main() is entered with the whole input waiting on stdin
InitServer ==
    /\ InitStore
    /\ ArchiveIdle
    /\ stdin \in FrameSeqs(MaxMessages)
    /\ stdout = <<>>
    /\ serving = "running"

NextServer ==
    \/ main_step
    \/ keyboard_interrupt

SpecServer == InitServer /\ [][NextServer]_vars

----------------------------------------------------------------------------
(* Inputs of the archive specification *)

Ids == {"a", "b", "c"}

TensorInputs ==
    { << <<"x", NdArray(<<1, 2>>)>> >>,
      << <<"x", ListVal(<<3>>)>>, <<"y", OtherVal>> >> }

MetaInputs ==
    { NoMeta,
      Meta(<<>>),
      Meta(<< <<"_id", StrV("c")>>, <<"k", StrV("a")>> >>),
      Meta(<< <<"k", ObjV>> >>) }

\* AuraWriter.__init__: the file is created empty, the index is empty
InitArchive ==
    /\ file = <<>>
    /\ pos = 0
    /\ index = <<>>
    /\ closed = FALSE
    /\ file_handle = "open"
    /\ alive = TRUE
    /\ scope \in {"plain", "with"}
    /\ nClose = 0
    /\ appended = <<>>
    /\ last = [op |-> "init", id |-> "", outcome |-> "ok"]
    /\ ReadersIdle
    /\ InitStore
    /\ ServerIdle

NextArchive ==
    \/ \E id \in Ids, t \in TensorInputs, m \in MetaInputs : append_datapoint(id, t, m)
    \/ writer_close
    \/ \E exc \in BOOLEAN : writer_exit(exc)
    \/ writer_del

SpecArchive == InitArchive /\ [][NextArchive]_vars

\* one writer after the other on the same path
NextReopen ==
    \/ \E id \in Ids, t \in TensorInputs, m \in MetaInputs : append_datapoint(id, t, m)
    \/ writer_close
    \/ \E exc \in BOOLEAN : writer_exit(exc)
    \/ writer_del
    \/ writer_open

SpecReopen == InitArchive /\ [][NextReopen]_vars

\* the positions asked of reader[key]
Positions == (0 - 2) .. (MaxRecords + 1)

\* the payloads of the records the readers are run on
ReaderTensors == << <<"x", NdArray(<<1, 2>>)>> >>

\* the writer of the file the readers are run on: it works before the first
\* reader call
WriterBeforeReaders ==
    /\ rlast = [r \in Readers |-> NoCall]
    /\ \/ \E id \in Ids : append_datapoint(id, ReaderTensors, NoMeta)
       \/ writer_close

\* one writer, then one reader making every call
NextReader ==
    \/ WriterBeforeReaders
    \/ reader_open("r1")
    \/ \E id \in Ids : reader_read_datapoint("r1", id)
    \/ \E key \in Positions : reader_getitem("r1", key)
    \/ ReadHeader("r1")
    \/ ReadMeta("r1")
    \/ ReadTensors("r1")
    \/ reader_iter("r1")
    \/ reader_close("r1")

SpecReader == InitMemory /\ [][NextReader]_vars

\* one writer, then the readers side by side, their steps interleaved
NextReaders ==
    \/ WriterBeforeReaders
    \/ \E r \in Readers : reader_open(r)
    \/ \E r \in Readers, id \in Ids : reader_read_datapoint(r, id)
    \/ \E r \in Readers : ReadHeader(r)
    \/ \E r \in Readers : ReadMeta(r)
    \/ \E r \in Readers : ReadTensors(r)

SpecReaders == InitMemory /\ [][NextReaders]_vars

----------------------------------------------------------------------------
(* Properties of the archive writer and reader *)

\* the metadata mapping the caller passed: empty when it was omitted
PassedMeta(metadata) == IF metadata.given THEN metadata.d ELSE <<>>

\* the end of the last record of the index: where the index block starts
RecordsEnd(idx) ==
    IF idx = <<>> THEN 0
    ELSE idx[Len(idx)][2][1] + 8 + idx[Len(idx)][2][2] + idx[Len(idx)][2][3]

\* the file is the records followed by one index block and one footer
Finalized ==
    /\ Len(file) >= RecordsEnd(index)
    /\ file = SubSeq(file, 1, RecordsEnd(index)) \o Trailer(index, RecordsEnd(index))
    /\ ReaderOpen(file).ok
    /\ ReaderOpen(file).v = index

\* C1 as stated: after close, a reader returns for every appended id exactly
\* the payload set and exactly the metadata mapping passed to append, with no
\* key added, removed or changed.
C1_RoundTripExact ==
    closed =>
        /\ ReaderOpen(file).ok
        /\ \A i \in DOMAIN appended :
              LET r == read_datapoint(file, ReaderOpen(file).v, appended[i].id)
              IN  /\ r.ok
                  /\ DictEq(r.tensors, appended[i].tensors)
                  /\ DictEq(r.meta, PassedMeta(appended[i].metadata))

\* C1 amended: after close, a reader returns for every appended id the payload
\* set as the writer converted it (arrays as passed, lists and tuples as
\* arrays, other values left out) and the metadata mapping passed with the key
\* _id set to the record id (added when absent, replaced when present).
C1_RoundTrip ==
    closed =>
        /\ ReaderOpen(file).ok
        /\ \A i \in DOMAIN appended :
              LET r == read_datapoint(file, ReaderOpen(file).v, appended[i].id)
              IN  /\ r.ok
                  /\ DictEq(r.tensors, TensorDict(appended[i].tensors))
                  /\ DictEq(r.meta, DictSet(PassedMeta(appended[i].metadata),
                                            "_id", StrV(appended[i].id)))
                  /\ IsDict(r.meta)

C1_Witness ==
    /\ closed
    /\ Len(appended) >= 2
    /\ \E i \in DOMAIN appended : ~appended[i].metadata.given
    /\ \E i \in DOMAIN appended : HasKey(appended[i].metadata.d, "_id")
    /\ \E i \in DOMAIN appended : \E j \in DOMAIN appended[i].tensors :
           appended[i].tensors[j][2].kind = "list"

\* C6: an append with an id that is in the index of an open writer ends with
\* DuplicateId and leaves index, file bytes and file offset as they were, and
\* after such a failure an append with a fresh id is still accepted.
C6_DuplicateRejected ==
    /\ [][(last'.op = "append" /\ ~closed /\ HasKey(index, last'.id)) =>
            /\ last'.outcome = "DuplicateId"
            /\ index' = index /\ file' = file /\ pos' = pos /\ closed' = closed]_vars
    /\ [][(last'.op = "append" /\ ~closed /\ ~HasKey(index, last'.id)) =>
            /\ last'.outcome \in {"ok", "TypeError"}
            /\ last'.outcome = "ok" => HasKey(index', last'.id)]_vars
    /\ [](last.outcome = "DuplicateId" =>
            \A id \in Ids \ Keys(index) : AppendOutcome(closed, index, id, NoMeta) = "ok")

C6_Witness ==
    /\ last.op = "append" /\ last.outcome = "DuplicateId"
    /\ Len(index) >= 1 /\ ~closed

\* C7: every append after close ends with ClosedWriter, for a fresh id and
\* for an id of the index alike, and leaves file and index as they were.
C7_AppendAfterClose ==
    [][(last'.op = "append" /\ closed) =>
         /\ last'.outcome = "ClosedWriter"
         /\ index' = index /\ file' = file /\ pos' = pos]_vars

C7_Witness ==
    /\ closed /\ last.op = "append" /\ last.outcome = "ClosedWriter"
    /\ HasKey(index, last.id)
    /\ Keys(index) # Ids

\* C8: after the first close the file is the records followed by one index
\* block and one 12-byte footer, and a close on a closed writer writes nothing.
C8_CloseIdempotent ==
    /\ [](closed =>
            /\ Len(file) = RecordsEnd(index) + Len(PackIndex(index)) + FooterSize
            /\ file = SubSeq(file, 1, RecordsEnd(index)) \o Trailer(index, RecordsEnd(index)))
    /\ [][(last'.op = "close" /\ closed) => (file' = file /\ pos' = pos)]_vars

C8_Witness == closed /\ nClose >= 2 /\ last.op = "close" /\ index # <<>>

\* C9: once a writer with at least one record has been destroyed, or its
\* with block has been left, the file is finalized: records, then the index
\* of all appended records, then a valid footer.
C9_SafetyNetClose ==
    ((~alive \/ scope = "left") /\ index # <<>>) =>
        /\ Finalized
        /\ Len(index) = Len(appended)

C9_Witness == ~alive /\ nClose = 0 /\ scope = "plain" /\ index # <<>>

\* C10: the ids of the index are pairwise distinct and the offsets are
\* strictly increasing in append order.
C10_IndexOrdered ==
    /\ IsDict(index)
    /\ \A i, j \in DOMAIN index : i < j => index[i][2][1] < index[j][2][1]
    /\ \A i \in DOMAIN index : index[i][1] = appended[i].id

C10_Witness == Len(index) >= 3

\* C11: once close has finalized the archive, no later operation changes the
\* bytes of the file, the opening of another writer on the same path included.
C11_FinalizedImmutable ==
    [][closed => file' = file]_vars

\* f without its last byte
DropLast(f) == SubSeq(f, 1, Len(f) - 1)

\* C12: a reader opens every finalized archive, whatever the number of its
\* records, and on the same file without its last byte open fails with
\* InvalidMagic.
C12_TruncatedRejected ==
    closed =>
        /\ OpenOutcome(file) = "ok"
        /\ OpenOutcome(DropLast(file)) = "InvalidMagic"

C12_Witness ==
    /\ closed
    /\ Len(index) >= 2
    /\ OpenOutcome(DropLast(file)) = "InvalidMagic"

\* C13: open succeeds only on a file that ends with the 12-byte footer, and
\* on the file of a writer that has not closed yet (empty, or records only)
\* it fails with InvalidMagic.
C13_OpenNeedsFooter ==
    /\ OpenOutcome(file) = "ok" =>
          /\ Len(file) >= FooterSize
          /\ SubSeq(file, Len(file) - 3, Len(file)) = AURA_MAGIC
          /\ closed
    /\ ~closed => OpenOutcome(file) = "InvalidMagic"

\* the ids of the successful appends, in append order
AppendedIds == [i \in DOMAIN appended |-> appended[i].id]

\* C14: a reader open on a finalized archive has as id list the appended ids
\* in append order; iteration returns the record of each of them once, in that
\* order; reader[i] returns the record of the i-th appended id for
\* 0 <= i < count and fails with OutOfRange for every other int, negative
\* ones included.
C14_OrderedAccess ==
    \A r \in Readers :
        (readers[r].obj /\ readers[r].file_handle = "open") =>
            /\ readers[r].datapoint_ids = AppendedIds
            /\ reader_len(readers[r].datapoint_ids) = Len(appended)
            /\ rlast[r].op = "iter" =>
                  /\ rlast[r].outcome = "ok"
                  /\ rlast[r].recs =
                        [i \in DOMAIN appended |->
                            Returned(read_datapoint(file, readers[r].index, appended[i].id))]
                  /\ \A i \in DOMAIN appended :
                        /\ rlast[r].recs[i].rec.ok
                        /\ DictGet(rlast[r].recs[i].rec.meta, "_id") = StrV(appended[i].id)
            /\ (rlast[r].op = "getitem" /\ rlast[r].outcome # "reading") =>
                  IF 0 <= rlast[r].position /\ rlast[r].position < Len(appended)
                  THEN /\ rlast[r].outcome = "ok"
                       /\ rlast[r].rec.ok
                       /\ rlast[r].rec = read_datapoint(file, readers[r].index,
                                                        appended[rlast[r].position + 1].id)
                  ELSE rlast[r].outcome = "OutOfRange"

C14_Witness ==
    /\ readers["r1"].file_handle = "open"
    /\ Len(appended) >= 3
    /\ rlast["r1"].op = "getitem" /\ rlast["r1"].outcome = "ok"
    /\ rlast["r1"].position = 2

\* C15: every read made on a reader after its close fails with ClosedReader:
\* read by id, access by position, iteration.
C15_ReadAfterClose ==
    \A r \in Readers :
        (readers[r].obj /\ readers[r].file_handle = "None"
            /\ rlast[r].op \in {"read", "getitem", "iter"}) =>
                rlast[r].outcome = "ClosedReader"

\* C16: with several readers open on one finalized file, every read gives
\* what it gives alone, however the seek and read steps interleave; a step of
\* one reader moves no handle but its own, and no reader step changes the file.
C16_ReadersIndependent ==
    /\ [](\A r \in Readers :
            (rlast[r].op = "read" /\ rlast[r].outcome # "reading") =>
                [outcome |-> rlast[r].outcome, rec |-> rlast[r].rec]
                    = ReadResult(file, readers[r].index, rlast[r].id))
    /\ [][rvars' # rvars => file' = file]_vars
    /\ [][\A r \in Readers :
            (readers'[r] = readers[r] /\ rlast'[r] = rlast[r]) => hpos'[r] = hpos[r]]_vars

C16_Witness ==
    /\ readers["r1"].pc = "meta"
    /\ readers["r2"].pc = "tensors"
    /\ readers["r1"].id # readers["r2"].id
    /\ rlast["r2"].op = "read"

----------------------------------------------------------------------------
(* Properties of the memory store *)

\* the places where a line equal to the serialized entry e is stored: positions
\* in active logs and positions in shard files
Places(e) ==
    UNION { {[ns |-> n, in |-> "wal", shard |-> ShardId(n, 0, <<>>), i |-> i] :
                i \in {i \in DOMAIN wal_file[n].lines : wal_file[n].lines[i] = json_dumps(e)}}
            \cup
            UNION { {[ns |-> n, in |-> "shard", shard |-> sh.id, i |-> i] :
                        i \in {i \in DOMAIN sh.lines : sh.lines[i] = json_dumps(e)}}
                    : sh \in shards[n] }
          : n \in NamespaceSet }

\* the write calls that returned the entry e
WritesOf(e) == {k \in DOMAIN written : written[k] = e}

\* every line of the log parses
AllParse(lines) == \A i \in DOMAIN lines : Parses(lines[i])

\* C2: each entry returned by a write is stored in exactly one place, the active
\* log of its namespace or one shard of its namespace: the stored lines that
\* hold it are as many as the writes that returned it, none under another
\* namespace.
C2_ExactlyOnePlace ==
    \A k \in DOMAIN written :
        /\ Cardinality(Places(written[k])) = Cardinality(WritesOf(written[k]))
        /\ \A pl \in Places(written[k]) : pl.ns = written[k].namespace

\* C3: flush_to_shard on a WAL of K >= 1 well-formed entries creates exactly
\* one new shard, holding those K entries in order, with entry_count K, removes
\* the active log and resets the counter; the flush after it returns None and
\* changes neither the shard directory nor the counter.
C3_FlushCreatesOneShard ==
    [][(mlast'.op = "flush" /\ now' = now) =>
         LET n == mlast'.ns
             g == Flush(wal_file'[n], entry_count'[n], shards'[n], n, now')
         IN  (wal_file[n].exists /\ entry_count[n] >= 1 /\ AllParse(wal_file[n].lines)) =>
                /\ Cardinality(shards'[n]) = Cardinality(shards[n]) + 1
                /\ \E sh \in shards'[n] \ shards[n] :
                       /\ shards'[n] = shards[n] \cup {sh}
                       /\ sh.lines = wal_file[n].lines
                /\ ~mlast'.ret[n].none
                /\ mlast'.ret[n].entry_count = Len(wal_file[n].lines)
                /\ wal_file'[n] = NoFile
                /\ entry_count'[n] = 0
                /\ g.ret.none /\ g.shards = shards'[n] /\ g.count = 0]_vars

\* C4: the write whose append brings the counter of its namespace to the
\* threshold compacts before it returns, the shard holds the entry of that
\* write, a write below the threshold only appends, and after every write the
\* counter is below the threshold.
C4_CompactAtThreshold ==
    /\ [](\A n \in NamespaceSet : entry_count[n] < WAL_FLUSH_THRESHOLD)
    /\ [][(mlast'.op = "write" /\ now' = now /\ written' # written) =>
            LET n == mlast'.ns
                line == json_dumps(written'[Len(written')])
            IN  IF entry_count[n] + 1 >= WAL_FLUSH_THRESHOLD
                THEN /\ ~mlast'.ret[n].none
                     /\ \E sh \in shards'[n] :
                            /\ sh.id = mlast'.ret[n].shard_id
                            /\ sh.lines = Append(wal_file[n].lines, line)
                            /\ Len(sh.lines) = WAL_FLUSH_THRESHOLD
                     /\ wal_file'[n] = NoFile
                     /\ entry_count'[n] = 0
                ELSE /\ mlast'.ret[n].none
                     /\ shards'[n] = shards[n]
                     /\ wal_file'[n] = [exists |-> TRUE, lines |-> Append(wal_file[n].lines, line)]
                     /\ entry_count'[n] = entry_count[n] + 1]_vars

C4_Witness ==
    \E n \in NamespaceSet :
        /\ mlast.op = "write" /\ mlast.ns = n
        /\ ~mlast.ret[n].none
        /\ mlast.ret[n].entry_count = WAL_FLUSH_THRESHOLD
        /\ entry_count[n] = 0
        /\ shards[n] # {}

\* C5: after end_session every counter is 0 and every active log is gone, one
\* new shard exists for each namespace whose WAL held at least one entry, and
\* none for a namespace whose WAL was empty.
C5_EndSession ==
    [][(mlast'.op = "end_session" /\ now' = now) =>
         \A n \in NamespaceSet :
            /\ entry_count'[n] = 0
            /\ ~wal_file'[n].exists
            /\ IF Len(wal_file[n].lines) >= 1
               THEN /\ shards[n] \subseteq shards'[n]
                    /\ Cardinality(shards'[n]) = Cardinality(shards[n]) + 1
               ELSE shards'[n] = shards[n]]_vars

\* C17: on a WAL that starts empty and is not flushed, every append adds one
\* line and one to the counter, so that after K appends the counter is K, and
\* needs_flush is true exactly when K is at least the threshold.
C17_CounterAndThreshold ==
    /\ [](\A n \in NamespaceSet :
            /\ entry_count[n] = Len(wal_file[n].lines)
            /\ (needs_flush(entry_count[n]) <=> (Len(wal_file[n].lines) >= 100)))
    /\ [](mlast.op = "needs_flush" =>
            ((mlast.outcome = "true") <=> (Len(wal_file[mlast.ns].lines) >= WAL_FLUSH_THRESHOLD)))
    /\ [][\A n \in NamespaceSet :
            wal_file'[n] # wal_file[n] =>
                /\ Len(wal_file'[n].lines) = Len(wal_file[n].lines) + 1
                /\ entry_count'[n] = entry_count[n] + 1]_vars

C17_Witness ==
    /\ mlast.op = "needs_flush" /\ mlast.ns = "pad" /\ mlast.outcome = "true"
    /\ entry_count["pad"] = WAL_FLUSH_THRESHOLD

\* a is the beginning of b
IsPrefix(a, b) == Len(a) <= Len(b) /\ a = SubSeq(b, 1, Len(a))

\* the process stopped between the writing of the shard and the unlink: the
\* entries of the flush are in the shard and in the active log, and the new
\* process counts them
TornKept ==
    /\ [][(up /\ ~up') =>
            \A n \in NamespaceSet :
                fpc[n].at = "written" =>
                    /\ torn'[n] = fpc[n].shard_id
                    /\ ParsedEntries(wal_file'[n].lines) = fpc[n].entries
                    /\ \E sh \in shards'[n] :
                          sh.id = fpc[n].shard_id /\ ParsedEntries(sh.lines) = fpc[n].entries]_vars
    /\ [][(~up /\ up') =>
            /\ wal_file' = wal_file
            /\ shards' = shards
            /\ \A n \in NamespaceSet : entry_count'[n] = Len(wal_file[n].lines)]_vars
    /\ [](\A n \in NamespaceSet :
            torn[n] # NoShard =>
                \E sh \in shards[n] :
                    /\ sh.id = torn[n]
                    /\ sh.lines # <<>>
                    /\ IsPrefix(sh.lines, wal_file[n].lines))

\* the flush that has just written its shard made a further shard next to
\* the one of the interrupted flush, and both hold the entries of that one
FurtherShard(n) ==
    /\ fpc'[n].shard_id # torn[n]
    /\ \E old \in shards'[n], new \in shards'[n] :
          /\ old.id = torn[n]
          /\ new.id = fpc'[n].shard_id
          /\ new # old
          /\ IsPrefix(old.lines, new.lines)

C19_ShardsImmutable ==
    /\ [][\A n \in NamespaceSet :
            shards'[n] # shards[n] =>
                /\ mlast'.op \in {"write", "flush", "end_session"}
                /\ ~mlast'.ret[n].none]_vars
    /\ [][\A n \in NamespaceSet : shards[n] \subseteq shards'[n]]_vars
    /\ [][(mlast'.op \in {"write", "flush", "end_session"} /\ now' = now) =>
            \A n \in NamespaceSet :
                ~mlast'.ret[n].none =>
                    mlast'.ret[n].shard_id \notin {sh.id : sh \in shards[n]}]_vars

\* C20: a write with a namespace outside {pad, episodic, fact} fails with
\* InvalidNamespace and leaves every active log, counter and shard as it was.
C20_InvalidNamespace ==
    [][(mlast'.op = "write" /\ now' = now /\ mlast'.ns \notin {"pad", "episodic", "fact"}) =>
         /\ mlast'.outcome = "InvalidNamespace"
         /\ wal_file' = wal_file
         /\ entry_count' = entry_count
         /\ shards' = shards
         /\ written' = written]_vars

C20_Witness ==
    /\ mlast.op = "write" /\ mlast.outcome = "InvalidNamespace"
    /\ mlast.ns \notin {"pad", "episodic", "fact"}
    /\ \E n \in NamespaceSet : wal_file[n].exists /\ entry_count[n] >= 1

\* C21: a query with a namespace argument outside {pad, episodic, fact} fails
\* with InvalidNamespace, the outcome write has for an unrecognized tier.
C21_QueryInvalidNamespace ==
    (/\ mlast.op = "query"
     /\ mlast.namespace.given
     /\ mlast.namespace.v \notin {"pad", "episodic", "fact"}) =>
        mlast.outcome = "InvalidNamespace"

\* the words of a text without regard to case, as a set
Words(text) == {Lower(text[i]) : i \in DOMAIN text}

\* C25: the list a query returns is ordered by non-increasing score, the score
\* of an entry being the number of query words among its content words divided
\* by the number of query words; no entry with zero overlap is returned, an
\* empty query returns nothing, and an entry that holds every query word has
\* score 1 and is not preceded by an entry that misses a query word.
C25_RankedByScore ==
    (mlast.op = "query" /\ mlast.outcome = "ok") =>
        LET rs == mlast.results
            qw == Words(mlast.query_text)
            found(r) == {w \in qw : w \in Words(r.content)}
        IN  /\ \A i, j \in DOMAIN rs :
                   i < j => rs[i].score.num * rs[j].score.den >= rs[j].score.num * rs[i].score.den
            /\ \A i \in DOMAIN rs :
                   /\ rs[i].score.num = Cardinality(found(rs[i]))
                   /\ rs[i].score.den = Cardinality(qw)
                   /\ rs[i].score.num > 0
            /\ qw = {} => rs = <<>>
            /\ \A j \in DOMAIN rs :
                   found(rs[j]) = qw =>
                       /\ rs[j].score.num = rs[j].score.den
                       /\ \A i \in 1 .. (j - 1) : found(rs[i]) = qw

C25_Witness ==
    /\ mlast.op = "query" /\ mlast.outcome = "ok"
    /\ Len(mlast.results) >= 3
    /\ mlast.results[1].content = <<"X", "y">>
    /\ mlast.results[1].score = [num |-> 2, den |-> 2]
    /\ mlast.results[2].score = [num |-> 1, den |-> 2]
    /\ \E i \in DOMAIN wal_file["pad"].lines :
          /\ wal_file["pad"].lines[i] = json_dumps(OldEntry(<<"z">>))
          /\ i < Len(wal_file["pad"].lines)

\* every entry in the scope of the last query that shares a word with it, as
\* the result it would be returned as
InScopeMatches ==
    LET namespaces == Scope(mlast.namespace)
        order == CHOOSE o \in ShardOrders : TRUE
    IN  Flatten([i \in DOMAIN namespaces |->
            NamespaceHits(namespaces[i], order[namespaces[i]], WordSet(mlast.query_text))])

\* C26: a query returns the top top_k matches: for top_k >= 0 exactly
\* min(top_k, M) results, M the number of entries in scope with non-zero
\* overlap, no omitted entry scoring strictly higher than a returned one; and
\* for every integer top_k never more than max(top_k, 0) results.
C26_TopK ==
    (mlast.op = "query" /\ mlast.outcome = "ok") =>
        LET rs == mlast.results
            all == InScopeMatches
            M == Len(all)
            top_k == mlast.top_k
        IN  /\ top_k >= 0 => Len(rs) = (IF top_k < M THEN top_k ELSE M)
            /\ top_k >= 0 =>
                   \A i \in DOMAIN all, j \in DOMAIN rs :
                       ~ScoreGE(rs[j].score, all[i].score) => \E k \in DOMAIN rs : rs[k] = all[i]
            /\ Len(rs) <= (IF top_k > 0 THEN top_k ELSE 0)

\* two results have the same score
Tied(a, b) == a.score.num * b.score.den = b.score.num * a.score.den

\* the place of a namespace in NAMESPACES
NamespaceIndex(ns) == CHOOSE i \in DOMAIN NAMESPACES : NAMESPACES[i] = ns

\* C27, as stated: in a query over all namespaces every tied entry that is
\* still in an active log precedes every tied entry that is stored in a shard.
C27_WalBeforeShards ==
    (mlast.op = "query" /\ mlast.outcome = "ok" /\ ~TruthyStr(mlast.namespace)) =>
        \A i, j \in DOMAIN mlast.results :
            (/\ Tied(mlast.results[i], mlast.results[j])
             /\ mlast.results[i].location.wal
             /\ ~mlast.results[j].location.wal) => i < j

\* C27, amended: among results of equal score the namespaces come in the
\* order pad, episodic, fact, and within one namespace every tied entry of the
\* active log precedes every tied entry of a shard of that namespace.
C27_EncounterOrder ==
    (mlast.op = "query" /\ mlast.outcome = "ok") =>
        \A i, j \in DOMAIN mlast.results :
            LET a == mlast.results[i]
                b == mlast.results[j]
            IN  Tied(a, b) =>
                    /\ NamespaceIndex(a.namespace) < NamespaceIndex(b.namespace) => i < j
                    /\ (a.namespace = b.namespace /\ a.location.wal /\ ~b.location.wal) => i < j

C27_Witness ==
    /\ mlast.op = "query" /\ mlast.outcome = "ok" /\ ~TruthyStr(mlast.namespace)
    /\ \E i, j, k \in DOMAIN mlast.results :
          /\ i < j /\ j < k
          /\ Tied(mlast.results[i], mlast.results[j])
          /\ Tied(mlast.results[j], mlast.results[k])
          /\ mlast.results[i].namespace = "pad" /\ mlast.results[i].location.wal
          /\ mlast.results[j].namespace = "pad" /\ ~mlast.results[j].location.wal
          /\ mlast.results[k].namespace = "fact" /\ mlast.results[k].location.wal

\* C28: flush_to_shard returns without effect only when the active log is
\* absent or empty: after a flush of a log that holds at least one line,
\* well-formed or malformed, the log is deleted and the live counter is 0.
C28_FlushConsumesLog ==
    [][\A n \in NamespaceSet :
          (/\ mlast'.op = "flush" /\ now' = now /\ mlast'.ns = n
           /\ wal_file[n].exists
           /\ Len(wal_file[n].lines) >= 1) =>
              /\ ~wal_file'[n].exists
              /\ entry_count'[n] = 0]_vars

\* the well-formed lines of a log, in file order
WellFormed(lines) == SelectSeq(lines, LAMBDA l : l.kind = "object")

\* C29: a malformed line never blocks the rest: a flush of an active log with
\* K >= 1 well-formed lines and any malformed lines makes a shard of exactly
\* the K well-formed entries in their order, with entry_count = K; and a query
\* wide enough to return every match returns, from an active log that is not
\* flushed, every match among its well-formed entries.
C29_MalformedSkipped ==
    /\ [][\A n \in NamespaceSet :
             (/\ mlast'.op = "flush" /\ now' = now /\ mlast'.ns = n
              /\ wal_file[n].exists
              /\ WellFormed(wal_file[n].lines) # <<>>) =>
                 /\ ~mlast'.ret[n].none
                 /\ mlast'.ret[n].entry_count = Len(WellFormed(wal_file[n].lines))
                 /\ \E sh \in shards'[n] :
                       /\ sh.id = mlast'.ret[n].shard_id
                       /\ sh.lines = WellFormed(wal_file[n].lines)]_vars
    /\ [](\A n \in NamespaceSet :
             (/\ mlast.op = "query" /\ mlast.outcome = "ok"
              /\ mlast.namespace = Str(n)
              /\ mlast.top_k >= Len(wal_file[n].lines) + Len(written)
              /\ wal_file[n].exists) =>
                 LET good == WellFormed(wal_file[n].lines)
                     match == SelectSeq(good,
                                  LAMBDA l : Overlap(WordSet(mlast.query_text), l.obj) > 0)
                     fromWal == SelectSeq(mlast.results, LAMBDA r : r.location.wal)
                 IN  /\ Len(fromWal) = Len(match)
                     /\ \A i \in DOMAIN match : fromWal[i].content = match[i].obj.content)

\* C22: list_shards and show_usage are pure observers: a call of either
\* leaves every active log, every live counter and every shard file
\* (existence and contents) as it was.
C22_PureObservers ==
    [][(mlast'.op \in {"list_shards", "show_usage"} /\ now' = now) =>
          /\ wal_file' = wal_file
          /\ entry_count' = entry_count
          /\ shards' = shards]_vars

C22_Witness ==
    /\ mlast.op = "list_shards"
    /\ \E n \in NamespaceSet :
          /\ mlast.listing[n].buffered >= 1
          /\ wal_file[n].exists
          /\ \E sh \in mlast.listing[n].shards : sh.entry_count >= 1

\* the namespaces a call with this namespace argument is meant for: the one
\* named, or all three when none is named
Named(namespace) == IF namespace.given THEN {namespace.v} ELSE NamespaceSet

\* C23: prune_shards with a valid before_date and no shard_ids deletes, in the
\* namespaces the call is for, exactly the shards whose modification time is
\* strictly earlier than the start of that date and leaves every other shard
\* as it was; a shard whose modification time is the cutoff instant is kept.
C23_PruneByDate ==
    [][(/\ mlast'.op = "prune_shards" /\ now' = now
        /\ mlast'.before_date.given /\ mlast'.before_date.v.parses
        /\ ~mlast'.shard_ids.given
        /\ Named(mlast'.namespace) \subseteq NamespaceSet) =>
           \A n \in NamespaceSet :
               shards'[n] = IF n \in Named(mlast'.namespace)
                            THEN {sh \in shards[n] : sh.mtime >= mlast'.before_date.v.start}
                            ELSE shards[n]]_vars

C23_Witness ==
    /\ mlast.op = "prune_shards" /\ mlast.outcome = "ok"
    /\ mlast.before_date.given /\ mlast.before_date.v.parses
    /\ ~mlast.shard_ids.given
    /\ mlast.deleted >= 1
    /\ \E n \in NamespaceSet : \E sh \in shards[n] : sh.mtime = mlast.before_date.v.start

\* C24: prune_shards with a before_date that cannot be parsed as YYYY-MM-DD
\* deletes no shard, in any namespace and in any enumeration order, also not
\* the shards named in shard_ids in the same call.
C24_BadDateDeletesNothing ==
    [][(/\ mlast'.op = "prune_shards" /\ now' = now
        /\ mlast'.before_date.given
        /\ ~mlast'.before_date.v.parses) => shards' = shards]_vars

\* the shard is named in shard_ids
ById(sh, shard_ids) == shard_ids.given /\ sh.id \in shard_ids.v

\* the shard was modified before the start of the date before_date
ByDate(sh, before_date) ==
    before_date.given /\ before_date.v.parses /\ sh.mtime < before_date.v.start

\* C30, as stated: prune_shards deletes a shard if and only if the shard lies
\* in the namespace scope (the given namespace, or all three when none is
\* given) and its id is in shard_ids or its modification time is before the
\* cutoff; the active logs, the live counters and all other shards are
\* unchanged.
C30_PruneExactly ==
    [][(mlast'.op = "prune_shards" /\ now' = now) =>
          /\ \A n \in NamespaceSet :
                /\ shards'[n] \subseteq shards[n]
                /\ \A sh \in shards[n] :
                      sh \notin shards'[n] <=>
                          /\ n \in Named(mlast'.namespace)
                          /\ ById(sh, mlast'.shard_ids) \/ ByDate(sh, mlast'.before_date)
          /\ wal_file' = wal_file
          /\ entry_count' = entry_count]_vars

\* C30, amended: a call whose before_date is a text other than "" that is no
\* date deletes nothing; every other call deletes a shard if and only if the
\* shard lies in the scope (the namespace given, or all three when none or ""
\* is given) and its id is in shard_ids or its modification time is before
\* the start of the date; the active logs, the live counters and all other
\* shards are unchanged.
C30_PruneExactlyUnlessAborted ==
    [][(mlast'.op = "prune_shards" /\ now' = now) =>
          LET before_date == mlast'.before_date
              aborted == before_date.given /\ ~before_date.v.empty /\ ~before_date.v.parses
              pruned == IF mlast'.namespace.given /\ mlast'.namespace.v # ""
                       THEN {mlast'.namespace.v} ELSE NamespaceSet
          IN  /\ \A n \in NamespaceSet :
                    /\ shards'[n] \subseteq shards[n]
                    /\ \A sh \in shards[n] :
                          sh \notin shards'[n] <=>
                              /\ ~aborted
                              /\ n \in pruned
                              /\ ById(sh, mlast'.shard_ids) \/ ByDate(sh, before_date)
              /\ wal_file' = wal_file
              /\ entry_count' = entry_count]_vars

C30_Witness ==
    /\ mlast.op = "prune_shards" /\ mlast.outcome = "ok"
    /\ mlast.namespace = Str("fact")
    /\ mlast.shard_ids.given
    /\ mlast.deleted = 1
    /\ shards["fact"] = {}
    /\ \E sh \in shards["pad"] : sh.id \notin mlast.shard_ids.v

\* C31: prune_shards called with a before_date that cannot be parsed ends
\* with the InvalidDateFormat outcome in every state of the store, also when
\* the namespaces in scope hold no shard.
C31_BadDateReported ==
    (/\ mlast.op = "prune_shards"
     /\ mlast.before_date.given
     /\ ~mlast.before_date.v.parses) => mlast.outcome = "InvalidDateFormat"

\* an operation on one tier: a write of an entry, or a flush_to_shard
TierOps == {[kind |-> k, ns |-> n] : k \in {"write", "flush"}, n \in NamespaceSet}

\* the store after the operation, called when the clock reads t
ApplyOp(st, o, t) ==
    LET e == IF o.kind = "write"
             THEN WriteEffect(st, o.ns, MemoryEntry(o.ns, "a", "agent", NoTags, t), t)
             ELSE FlushEffect(st, o.ns, t)
    IN  [wal_file |-> e.wal_file, entry_count |-> e.entry_count, shards |-> e.shards]

\* C32: the three WALs are independent: a write (with or without the
\* auto-compaction it may start) or a flush_to_shard on one namespace leaves
\* the active log, the live counter and the shards of the other two as they
\* were, and two operations on different namespaces, each with its own clock
\* reading, leave the same store in either order.
C32_TiersIndependent ==
    /\ [][\A n \in NamespaceSet :
             (mlast'.op \in {"write", "flush"} /\ now' = now /\ mlast'.ns = n) =>
                 \A m \in NamespaceSet \ {n} :
                     /\ wal_file'[m] = wal_file[m]
                     /\ entry_count'[m] = entry_count[m]
                     /\ shards'[m] = shards[m]]_vars
    /\ [](\A o1, o2 \in TierOps : \A t1, t2 \in {now, now + 1} :
             o1.ns # o2.ns =>
                 ApplyOp(ApplyOp(StoreState, o1, t1), o2, t2)
                     = ApplyOp(ApplyOp(StoreState, o2, t2), o1, t1))

C32_Witness ==
    /\ mlast.op = "write" /\ mlast.outcome = "ok"
    /\ ~mlast.ret[mlast.ns].none
    /\ \E m \in NamespaceSet \ {mlast.ns} : wal_file[m].exists /\ entry_count[m] >= 1

\* 8 + meta_len + payload_len summed over the first n entries of an index
RECURSIVE RecordsSize(_, _)
RecordsSize(idx, n) ==
    IF n = 0 THEN 0
    ELSE RecordsSize(idx, n - 1) + 8 + idx[n][2][2] + idx[n][2][3]

\* C33: in every finalized archive the records are contiguous from offset 0:
\* the offset of each index entry is the sum of 8 + meta_len + payload_len over
\* the records before it, the index offset in the footer is that sum over all
\* records, and the file size is index offset + length of the index block + 12.
C33_Contiguous ==
    closed =>
        /\ ReaderOpen(file).ok
        /\ LET idx == ReaderOpen(file).v
               index_offset == UnpackLE(SubSeq(file, Len(file) - 11, Len(file) - 4))
           IN  /\ \A i \in DOMAIN idx : idx[i][2][1] = RecordsSize(idx, i - 1)
               /\ index_offset = RecordsSize(idx, Len(idx))
               /\ Len(file) = index_offset + Len(PackIndex(idx)) + 12

C33_Witness ==
    /\ closed
    /\ ReaderOpen(file).ok
    /\ Len(ReaderOpen(file).v) >= 2
    /\ ReaderOpen(file).v[2][2][1] = RecordsSize(ReaderOpen(file).v, 1)

\* C34: entry_id is unique: any two distinct write calls on a store produce
\* entries with different entry_id values, whatever their contents and however
\* close together in time the calls are made.
C34_EntryIdUnique ==
    \A i, j \in DOMAIN written : i # j => written[i].entry_id # written[j].entry_id

\* C35: a stop of the process at any point of flush_to_shard loses no
\* acknowledged entry: in every state, before and after the restart, each
\* entry a write has returned is stored in an active log or in a shard.
C35_NoAcknowledgedLoss ==
    \A k \in DOMAIN written : Places(written[k]) # {}

C35_Witness ==
    /\ up
    /\ \E n \in NamespaceSet :
          /\ torn[n] # NoShard
          /\ entry_count[n] >= 1
          /\ \E sh \in shards[n] :
                /\ sh.id = torn[n]
                /\ Len(ParsedEntries(sh.lines)) < Len(wal_file[n].lines)

\* C36: in every state of a store, also right after it is built over a root
\* that an earlier instance left behind, the live counter of each namespace is
\* the number of non-blank lines of its active log, 0 when the log is absent.
C36_CounterIsLineCount ==
    \A n \in NamespaceSet :
        entry_count[n] = (IF wal_file[n].exists THEN Len(wal_file[n].lines) ELSE 0)

\* the matches of a query in the present store, taken from the active logs
\* and from every shard of the namespaces in scope, location left out, each
\* with the number of times it occurs
MatchBag(query_text, namespace) ==
    LET namespaces == Scope(namespace)
        query_words == WordSet(query_text)
        placed(hits) == {[hit |-> hits[i], i |-> i] : i \in DOMAIN hits}
        hitsOf(n) ==
            placed(Hits(read_wal(wal_file[n]), n, query_words, InWal))
                \cup UNION { placed(Hits(ParsedEntries(sh.lines), n, query_words, InShard(sh.id)))
                             : sh \in shards[n] }
        all == UNION {hitsOf(namespaces[i]) : i \in DOMAIN namespaces}
        key(x) == [content |-> x.hit.content, namespace |-> x.hit.namespace, score |-> x.hit.score]
    IN  [m \in {key(x) : x \in all} |-> Cardinality({x \in all : key(x) = m})]

\* C37: compaction is invisible to query: for every query text and namespace
\* scope the multiset of matches (content, namespace, score), taken with top_k
\* large enough for all of them, is the same right before and right after a
\* flush_to_shard or an end_session.
C37_CompactionInvisible ==
    [][(mlast'.op \in {"flush", "end_session"} /\ now' = now) =>
          \A q \in {<<"x">>, <<"Y", "x", "x">>} :
              \A namespace \in {NoStr, Str("pad"), Str("fact")} :
                  MatchBag(q, namespace)' = MatchBag(q, namespace)]_vars

\* C38: when flush_to_shard fails while it writes the shard or deletes the
\* log and returns None, the store is as before the call: active log and
\* counter unchanged, no new shard file left, complete or partial; so no
\* entry is stored more often than it was written, also after a retry.
C38_FailedFlushNoEffect ==
    /\ [][(mlast'.op = "flush" /\ mlast'.outcome = "failed" /\ now' = now) =>
             /\ wal_file' = wal_file
             /\ entry_count' = entry_count
             /\ shards' = shards]_vars
    /\ [](\A k \in DOMAIN written :
             Cardinality(Places(written[k])) <= Cardinality(WritesOf(written[k])))

\* C39: the loop of the MCP server ends only at the end of the input or on an
\* interrupt: when main() has ended without an interrupt, every frame of the
\* input has been read, so no well-formed request that follows a skipped
\* message is left unanswered.
C39_EndsOnlyAtEndOfInput ==
    serving = "ended" => stdin = <<>>

====
